---- MODULE Spec2Model ----
(***************************************************************************)
(* terraform-sbom: a one-shot transform of a directory tree of Terraform   *)
(* files into a list of module records (package sbom: finder + generator). *)
(*                                                                         *)
(* Strings are sequences of one-character strings, so that prefix, suffix  *)
(* and base-name computations are carried out as the Go code does them.    *)
(* A file-system path is kept as its sequence of components; PathStr       *)
(* renders it as the string the program sees.                              *)
(***************************************************************************)
EXTENDS Integers, Sequences, FiniteSets, TLC

\* ------------------------------------------------------------------ bounds
MaxDepth == 3       \* deepest entry below the scan root
MaxEntries == 4     \* number of entries below the scan root

\* ----------------------------------------------------------------- strings
Nil == "nil"

\* byte values of the characters used, for the lexical order of os.ReadDir
Code(c) ==
  CASE c = "." -> 46
    [] c = "/" -> 47
    [] c = "a" -> 97
    [] c = "f" -> 102
    [] c = "h" -> 104
    [] c = "m" -> 109
    [] c = "p" -> 112
    [] c = "t" -> 116
    [] c = "w" -> 119
    [] OTHER   -> 0

RECURSIVE StrLess(_, _)
StrLess(s, t) ==
  IF t = <<>> THEN FALSE
  ELSE IF s = <<>> THEN TRUE
  ELSE IF Code(Head(s)) # Code(Head(t)) THEN Code(Head(s)) < Code(Head(t))
  ELSE StrLess(Tail(s), Tail(t))

\* strings.HasPrefix / strings.HasSuffix
HasPrefix(s, pre) ==
  Len(s) >= Len(pre) /\ SubSeq(s, 1, Len(pre)) = pre

HasSuffix(s, suf) ==
  Len(s) >= Len(suf) /\ SubSeq(s, Len(s) - Len(suf) + 1, Len(s)) = suf

Dot == <<".">>
TfSuffix == <<".", "t", "f">>

\* entry names that occur in the modelled trees
NameA == <<"a">>
NameHidden == <<".", "h">>
NameTf == <<"m", ".", "t", "f">>
Names == {NameA, NameHidden, NameTf}

\* names a scan root may have, and the working directory it lives in
RootNames == {<<"p">>, <<".", "p">>}
Cwd == << <<"w">> >>

\* the string form of an absolute path: "/" c1 "/" c2 ...
RECURSIVE PathStr(_)
PathStr(p) ==
  IF p = <<>> THEN <<>> ELSE <<"/">> \o Head(p) \o PathStr(Tail(p))

\* index of the last "/" of s, 0 when there is none
RECURSIVE LastSlash(_)
LastSlash(s) ==
  IF s = <<>> THEN 0
  ELSE IF s[Len(s)] = "/" THEN Len(s)
  ELSE LastSlash(SubSeq(s, 1, Len(s) - 1))

RECURSIVE StripTrailingSlashes(_)
StripTrailingSlashes(s) ==
  IF s # <<>> /\ s[Len(s)] = "/"
  THEN StripTrailingSlashes(SubSeq(s, 1, Len(s) - 1))
  ELSE s

\* filepath.Base
Base(s) ==
  IF s = <<>> THEN Dot
  ELSE LET t == StripTrailingSlashes(s) IN
       IF t = <<>> THEN <<"/">>
       ELSE SubSeq(t, LastSlash(t) + 1, Len(t))

\* ------------------------------------------------------------ file system
\* An entry is a directory, a regular file, or a symbolic link to a
\* directory (a link to a file behaves as a file everywhere in this code).
Kinds == {"dir", "file", "link"}

Parent(p) == SubSeq(p, 1, Len(p) - 1)
Last(p) == p[Len(p)]

VARIABLES
  fs,          \* absolute path -> [kind, readable], the entries that exist
  content,     \* directory -> what the Terraform parser returns for it
  statDenied,  \* os.Stat of the scan root fails with an error other than ENOENT
  configPath,  \* argument of Generate: a path relative to Cwd
  recursive,   \* argument of Generate
  pc,          \* position in main and in Generate
  absPath,     \* Generate: absPath
  moduleDirs,  \* Generate: moduleDirs
  dirIdx,      \* Generate: position of the range loop over moduleDirs
  sbom,        \* Generate: the SBOM under construction (Nil before creation)
  result,      \* what Generate returned: [sbom, err]
  stderr,      \* lines written to os.Stderr
  visited,     \* history: paths the walk callback was invoked on without error
  pruned,      \* history: paths the walk callback answered SkipDir for
  loaded,      \* history: directories handed to tfconfig.LoadModule, in order
  origins,     \* history: for each element of sbom.Modules, its directory
  args,        \* main: the command line, [given, f, o, v, r, dirs]
  config,      \* main: *Config returned by ParseFlags
  fmtIdx,      \* main: position of the range loop over config.Format
  files,       \* output path -> file content, the files that exist
  stdout,      \* lines written to os.Stdout
  exitCode,    \* the process exit status, once the run has ended
  exported,    \* history: the Export calls made, [format, path, err], in order
  call,        \* a package function called on its own: its arguments
  ret,         \* what that function returned
  firstCall    \* two calls of Generate: the flag and the result of the first

mainVars == <<args, config, fmtIdx, files, stdout, exitCode, exported>>
libVars == <<call, ret>>

vars == <<fs, content, statDenied, configPath, recursive, pc, absPath,
          moduleDirs, dirIdx, sbom, result, stderr, visited, pruned, loaded,
          origins, args, config, fmtIdx, files, stdout, exitCode, exported,
          call, ret, firstCall>>

Exists(p) == p \in DOMAIN fs

\* os.Stat follows symbolic links, os.Lstat and fs.DirEntry do not
StatIsDir(p) == Exists(p) /\ fs[p].kind \in {"dir", "link"}
LstatIsDir(p) == Exists(p) /\ fs[p].kind = "dir"

Children(p) == {q \in DOMAIN fs : Len(q) = Len(p) + 1 /\ Parent(q) = p}

\* os.ReadDir: fails on a missing, non-directory or unreadable path
ReadDirFails(p) == ~StatIsDir(p) \/ ~fs[p].readable

RECURSIVE SortByName(_)
SortByName(S) ==
  IF S = {} THEN <<>>
  ELSE LET m == CHOOSE x \in S : \A y \in S \ {x} : StrLess(Last(x), Last(y))
       IN <<m>> \o SortByName(S \ {m})

\* the entries os.ReadDir returns, sorted by file name
ReadDir(p) == IF ReadDirFails(p) THEN <<>> ELSE SortByName(Children(p))


\* ------------------------------------------------------- package sbom: finder
\* a directory counting the .tf files anywhere below it
HasTerraformFilesDeep(dir) ==
  IF ReadDirFails(dir) THEN FALSE
  ELSE \E q \in DOMAIN fs :
         /\ Len(q) > Len(dir)
         /\ SubSeq(q, 1, Len(dir)) = dir
         /\ ~LstatIsDir(q)
         /\ HasSuffix(Last(q), TfSuffix)

\* HasTerraformFiles: a listable directory with a direct non-directory entry
\* whose name ends in ".tf"
HasTerraformFiles(dir) ==
  IF ReadDirFails(dir) THEN FALSE
  ELSE \E i \in 1..Len(ReadDir(dir)) :
         LET entry == ReadDir(dir)[i] IN
         ~LstatIsDir(entry) /\ HasSuffix(Last(entry), TfSuffix)

\* ValidateTerraformDirectory: the error returned, Nil for none
ErrNotExist == "path does not exist"
ErrStat == "failed to stat path"
ErrNotDir == "path must be a directory containing Terraform files"

\* ValidateTerraformDirectory without the IsDir test
ValidateNoDirCheck(path) ==
  IF ~statDenied /\ ~Exists(Cwd \o path) THEN ErrNotExist
  ELSE IF statDenied THEN ErrStat
  ELSE Nil

ValidateTerraformDirectory(path) ==
  IF ~statDenied /\ ~Exists(Cwd \o path) THEN ErrNotExist
  ELSE IF statDenied THEN ErrStat
  ELSE IF ~StatIsDir(Cwd \o path) THEN ErrNotDir
  ELSE Nil

SkipDir == "SkipDir"

\* WalkFn with the hidden-directory test applied to the scan root as well
WalkFnPruneRoot(path, isDir, name, err, root) ==
  IF err
  THEN [ret |-> Nil, add |-> FALSE, warn |-> TRUE]
  ELSE IF isDir /\ HasPrefix(name, Dot)
  THEN [ret |-> SkipDir, add |-> FALSE, warn |-> FALSE]
  ELSE [ret |-> Nil, add |-> isDir /\ HasTerraformFiles(path), warn |-> FALSE]

\* WalkFn handing the walk's error back to WalkDir, which aborts the walk
WalkFnAbort(path, isDir, name, err, root) ==
  IF err
  THEN [ret |-> "walk error", add |-> FALSE, warn |-> FALSE]
  ELSE IF isDir /\ HasPrefix(name, Dot) /\ path # root
  THEN [ret |-> SkipDir, add |-> FALSE, warn |-> FALSE]
  ELSE [ret |-> Nil, add |-> isDir /\ HasTerraformFiles(path), warn |-> FALSE]

\* the callback FindTerraformModules hands to filepath.WalkDir:
\* what it returns, whether it appends path to modules, whether it warns
WalkFn(path, isDir, name, err, root) ==
  IF err
  THEN [ret |-> Nil, add |-> FALSE, warn |-> TRUE]
  ELSE IF isDir /\ HasPrefix(name, Dot) /\ path # root
  THEN [ret |-> SkipDir, add |-> FALSE, warn |-> FALSE]
  ELSE [ret |-> Nil, add |-> isDir /\ HasTerraformFiles(path), warn |-> FALSE]

\* the effect of one callback invocation on the walk's accumulated state
Apply(acc, path, r) ==
  [err    |-> r.ret,
   mods   |-> IF r.add THEN Append(acc.mods, path) ELSE acc.mods,
   warns  |-> IF r.warn THEN Append(acc.warns, path) ELSE acc.warns,
   visits |-> IF r.warn THEN acc.visits ELSE Append(acc.visits, path),
   skips  |-> IF r.ret = SkipDir THEN Append(acc.skips, path) ELSE acc.skips]

\* a walk that takes a symbolic link to a directory for a directory
WalkIsDirFollow(path) == StatIsDir(path)

\* filepath.WalkDir: os.Lstat on the root and DirEntry.IsDir on the entries,
\* neither of which follows a symbolic link
WalkIsDir(path) == LstatIsDir(path)

RECURSIVE walkDir(_, _, _), walkEntries(_, _, _)

\* filepath.walkDir: callback on path, then on a ReadDir error, then the
\* entries in lexical order
walkDir(path, root, acc) ==
  LET isDir == WalkIsDir(path)
      a1 == Apply(acc, path, WalkFn(path, isDir, Last(path), FALSE, root))
  IN IF a1.err # Nil \/ ~isDir
     THEN [a1 EXCEPT !.err = IF a1.err = SkipDir /\ isDir THEN Nil ELSE a1.err]
     ELSE IF ReadDirFails(path)
     THEN LET a2 == Apply(a1, path, WalkFn(path, isDir, Last(path), TRUE, root))
          IN IF a2.err # Nil
             THEN [a2 EXCEPT !.err = IF a2.err = SkipDir /\ isDir THEN Nil ELSE a2.err]
             ELSE a2
     ELSE walkEntries(ReadDir(path), root, a1)

walkEntries(dirs, root, acc) ==
  IF dirs = <<>> THEN [acc EXCEPT !.err = Nil]
  ELSE LET a == walkDir(Head(dirs), root, acc)
       IN IF a.err # Nil
          THEN IF a.err = SkipDir THEN [a EXCEPT !.err = Nil] ELSE a
          ELSE walkEntries(Tail(dirs), root, a)

EmptyWalk ==
  [err |-> Nil, mods |-> <<>>, warns |-> <<>>, visits |-> <<>>, skips |-> <<>>]

\* filepath.WalkDir
WalkDir(root) ==
  LET a == IF ~Exists(root)
           THEN Apply(EmptyWalk, root, WalkFn(root, FALSE, Last(root), TRUE, root))
           ELSE walkDir(root, root, EmptyWalk)
  IN [a EXCEPT !.err = IF a.err = SkipDir THEN Nil ELSE a.err]

\* the directories that the local sources ("./name") declared in the
\* directories dirs point to, where those hold Terraform files
RECURSIVE LocalSourceDirs(_)
LocalSourceDirs(dirs) ==
  IF dirs = <<>> THEN <<>>
  ELSE LET d == Head(dirs)
           T == {d \o <<SubSeq(c.Source, 3, Len(c.Source))>> :
                   c \in {x \in content[d].calls : HasPrefix(x.Source, <<".", "/">>)}}
                \cap DOMAIN content
       IN SortByName(T) \o LocalSourceDirs(Tail(dirs))

\* FindTerraformModules extended to follow local module sources
FindTerraformModulesFollow(root, rec) ==
  LET found == IF ~rec
               THEN [EmptyWalk EXCEPT
                       !.mods = IF HasTerraformFiles(root) THEN <<root>> ELSE <<>>]
               ELSE WalkDir(root)
  IN [found EXCEPT !.mods = @ \o LocalSourceDirs(@)]

\* FindTerraformModules: the error and the list it returns (err, mods), the
\* paths it warned about, and the paths the walk visited and pruned
FindTerraformModules(root, rec) ==
  IF ~rec
  THEN [EmptyWalk EXCEPT !.mods = IF HasTerraformFiles(root) THEN <<root>> ELSE <<>>]
  ELSE WalkDir(root)


\* ---------------------------------------------------- package sbom: generator
\* %d of a natural number
RECURSIVE Digits(_)
Digits(n) ==
  LET d == <<"0", "1", "2", "3", "4", "5", "6", "7", "8", "9">>[(n % 10) + 1]
  IN IF n < 10 THEN <<d>> ELSE Digits(n \div 10) \o <<d>>

\* fmt.Sprintf("Module call at %s:%d", filename, line)
LocationOf(filename, line) ==
  <<"Module call at ">> \o filename \o <<":">> \o Digits(line)

\* the ModuleInfo Generate builds from one tfconfig.ModuleCall
ModuleInfoOf(moduleCall) ==
  [Name     |-> moduleCall.Name,
   Source   |-> moduleCall.Source,
   Version  |-> moduleCall.Version,
   Location |-> LocationOf(moduleCall.Pos.Filename, moduleCall.Pos.Line),
   Filename |-> Base(moduleCall.Pos.Filename)]

\* the conversion loop skipping a call that carries no version constraint
RECURSIVE ModuleInfosOfVersioned(_)
ModuleInfosOfVersioned(calls) ==
  IF calls = <<>> THEN <<>>
  ELSE (IF Head(calls).Version = "" THEN <<>> ELSE <<ModuleInfoOf(Head(calls))>>)
       \o ModuleInfosOfVersioned(Tail(calls))

\* lines 46-55: the records appended for the calls of one module, in the
\* order the range over the map yields them
RECURSIVE ModuleInfosOf(_)
ModuleInfosOf(calls) ==
  IF calls = <<>> THEN <<>>
  ELSE <<ModuleInfoOf(Head(calls))>> \o ModuleInfosOf(Tail(calls))

\* A Go slice is nil or holds elements; a pointer is <<>> (nil) or <<v>>.
NilSlice == [isNil |-> TRUE, elems |-> <<>>]
EmptySlice == [isNil |-> FALSE, elems |-> <<>>]
AppendOne(slice, x) == [isNil |-> FALSE, elems |-> Append(slice.elems, x)]

RECURSIVE AppendEach(_, _)
AppendEach(slice, xs) ==
  IF xs = <<>> THEN slice ELSE AppendEach(AppendOne(slice, Head(xs)), Tail(xs))

NilPtr == <<>>
PtrTo(v) == <<v>>

\* before Generate has returned
NoResult == [sbom |-> NilPtr, err |-> Nil]

SBOMVersion == "1.0"
SBOMTool == "terraform-sbom"

\* the SBOM literal with no Modules field, which leaves the slice nil
NewSBOMNilModules(generated) ==
  [Version |-> SBOMVersion, Generated |-> generated, Tool |-> SBOMTool,
   Modules |-> NilSlice]

\* the SBOM literal Generate starts from
NewSBOM(generated) ==
  [Version |-> SBOMVersion, Generated |-> generated, Tool |-> SBOMTool,
   Modules |-> EmptySlice]

ErrAbs == "failed to get absolute path"
ErrFind == "failed to find Terraform modules"
ErrLoad == "failed to load Terraform module"

\* ----------------------------------------------------------- environment
\* what time.Now().Format(time.RFC3339) may produce
Timestamps == {"2025-01-01T00:00:00Z"}

\* module sources: a local path and a registry address
SrcLocal == <<".", "/", "a">>
SrcRegistry == <<"h", "/", "a", "/", "w">>

\* the .tf entries a directory holds (whether or not it can be listed)
TfEntries(f, p) ==
  {q \in DOMAIN f : Len(q) = Len(p) + 1 /\ Parent(q) = p
                    /\ f[q].kind # "dir" /\ HasSuffix(Last(q), TfSuffix)}

TfDirs(f) == {p \in DOMAIN f : f[p].kind \in {"dir", "link"} /\ TfEntries(f, p) # {}}

\* the module calls the parser may report for directory p: it names the
\* declaring file by the directory path joined with the file name
CallPool(f, p) ==
  LET file == PathStr(CHOOSE q \in TfEntries(f, p) : TRUE) IN
  {[Name |-> "x", Source |-> SrcLocal, Version |-> "",
    Pos |-> [Filename |-> file, Line |-> 2]],
   [Name |-> "y", Source |-> SrcRegistry, Version |-> "~> 5.0",
    Pos |-> [Filename |-> file, Line |-> 10]]}

\* tfconfig.LoadModule's answers: diagnostics with errors, or the map
\* ModuleCalls (one call per name)
ParseOutcomes(f, p) ==
  {[err |-> TRUE, calls |-> {}]} \cup
  {[err |-> FALSE, calls |-> S] : S \in {{}, CallPool(f, p)}}

\* the paths below the root, as component sequences
RelPaths == UNION {[1..d -> Names] : d \in 1..MaxDepth}

\* the prefix-closed sets of at most n relative paths
RECURSIVE Trees(_)
Trees(n) ==
  IF n = 0 THEN {{}}
  ELSE LET T == Trees(n - 1) IN
       T \cup UNION {{S \cup {p} : p \in {q \in RelPaths : Len(q) = 1 \/ Parent(q) \in S}} :
                     S \in T}

Inner(T, p) == \E q \in T : Len(q) = Len(p) + 1 /\ Parent(q) = p

\* the kinds of the entries of T: an entry with children is a directory
\* and, to keep the family small, names take the kinds that matter to the
\* scan: ".h" is a directory, "m.tf" a file or a directory, "a" anything
KindMaps(T) ==
  {k \in [T -> Kinds] :
     \A q \in T : /\ Inner(T, q) => k[q] = "dir"
                  /\ Last(q) = NameHidden => k[q] = "dir"
                  /\ Last(q) = NameTf => k[q] # "link"}

\* what os.Stat may find at the scan root
RootStats == {"none", "denied", "file", "dir", "link"}

\* the file system with root entry Cwd/rn of kind rk, the entries T below it
\* with kinds k, and the directories u (at most one) unreadable
MakeFs(rn, rk, T, k, u) ==
  LET root == Cwd \o <<rn>> IN
  [p \in {root} \cup {root \o q : q \in T} |->
     [kind     |-> IF p = root THEN rk ELSE k[SubSeq(p, Len(root) + 1, Len(p))],
      readable |-> p \notin u]]

NoFs == [p \in {} |-> [kind |-> "dir", readable |-> TRUE]]

\* ------------------------------------------------------------------ Generate
\* the file systems whose scan root Cwd/rn holds one of the given trees,
\* with what the parser answers for each directory holding .tf files
FsInit(rn, trees) ==
  /\ \E st \in RootStats :
       /\ statDenied = (st = "denied")
       /\ IF st \in {"none", "denied"} THEN fs = NoFs
          ELSE \E T \in IF st = "file" THEN {{}} ELSE trees :
               \E k \in KindMaps(T) :
                 LET f == MakeFs(rn, st, T, k, {}) IN
                 \E u \in {{}} \cup {{p} : p \in {q \in DOMAIN f :
                                                f[q].kind = "dir" \/ q = Cwd \o <<rn>>}} :
                   fs = MakeFs(rn, st, T, k, IF st = "file" THEN {} ELSE u)
  /\ content \in [TfDirs(fs) -> UNION {ParseOutcomes(fs, p) : p \in TfDirs(fs)}]
  /\ \A p \in TfDirs(fs) : content[p] \in ParseOutcomes(fs, p)

NoArgs == [f |-> <<>>, o |-> <<>>, v |-> FALSE, r |-> FALSE, dirs |-> <<>>]
NoFiles == [p \in {} |-> [data |-> <<>>, torn |-> FALSE]]
NoCall == [fn |-> "none"]
NoRet == [fn |-> "none"]

\* Generate called on its own: no command line, no output files
GenInit ==
  /\ \E rn \in RootNames : configPath = <<rn>> /\ FsInit(rn, Trees(MaxEntries))
  /\ recursive \in BOOLEAN
  /\ pc = "validate"
  /\ absPath = <<>>
  /\ moduleDirs = <<>>
  /\ dirIdx = 0
  /\ sbom = NilPtr
  /\ result = NoResult
  /\ stderr = <<>>
  /\ visited = <<>>
  /\ pruned = <<>>
  /\ loaded = <<>>
  /\ origins = <<>>
  /\ args = NoArgs
  /\ config = NilPtr
  /\ fmtIdx = 0
  /\ files = NoFiles
  /\ stdout = <<>>
  /\ exitCode = NilPtr
  /\ exported = <<>>
  /\ call = NoCall
  /\ ret = NoRet
  /\ firstCall = NilPtr

\* the orders in which a range over the map ModuleCalls may visit its values
RECURSIVE Orders(_)
Orders(S) ==
  IF S = {} THEN {<<>>}
  ELSE UNION {{<<c>> \o o : o \in Orders(S \ {c})} : c \in S}

\* Generate returning the SBOM built so far together with the parse error
LoadFailurePartial(partial) == [sbom |-> partial, err |-> ErrLoad]

\* line 42: what Generate returns when the parser reports errors
LoadFailure(partial) == [sbom |-> NilPtr, err |-> ErrLoad]

\* line 55: "Warning: skipping <path> due to error: ..." for each path
WarningLines(paths) == [i \in 1..Len(paths) |-> <<"Warning: skipping", paths[i]>>]

Return(s, err) ==
  /\ result' = [sbom |-> s, err |-> err]
  /\ pc' = "returned"

\* lines 13-16: validate the configuration path
GenValidate ==
  /\ pc = "validate"
  /\ LET err == ValidateTerraformDirectory(configPath) IN
     IF err # Nil
     THEN Return(NilPtr, err)
     ELSE pc' = "abs" /\ UNCHANGED result
  /\ UNCHANGED <<fs, content, statDenied, configPath, recursive, absPath,
                 moduleDirs, dirIdx, sbom, stderr, visited, pruned, loaded,
                 origins>>
  /\ UNCHANGED mainVars
  /\ UNCHANGED libVars
  /\ UNCHANGED firstCall

\* lines 18-22: filepath.Abs, which fails only when the working directory
\* cannot be determined
GenAbs ==
  /\ pc = "abs"
  /\ \E getwdFails \in BOOLEAN :
       IF getwdFails
       THEN Return(NilPtr, ErrAbs) /\ UNCHANGED absPath
       ELSE absPath' = Cwd \o configPath /\ pc' = "find" /\ UNCHANGED result
  /\ UNCHANGED <<fs, content, statDenied, configPath, recursive,
                 moduleDirs, dirIdx, sbom, stderr, visited, pruned, loaded,
                 origins>>
  /\ UNCHANGED mainVars
  /\ UNCHANGED libVars
  /\ UNCHANGED firstCall

\* lines 24-36: find the module directories, then create the empty SBOM
GenFind ==
  /\ pc = "find"
  /\ LET found == FindTerraformModules(absPath, recursive) IN
     /\ stderr' = stderr \o WarningLines(found.warns)
     /\ visited' = found.visits
     /\ pruned' = found.skips
     /\ IF found.err # Nil
        THEN Return(NilPtr, ErrFind) /\ UNCHANGED <<moduleDirs, dirIdx, sbom>>
        ELSE /\ moduleDirs' = found.mods
             /\ dirIdx' = 1
             /\ \E now \in Timestamps : sbom' = PtrTo(NewSBOM(now))
             /\ pc' = "loop"
             /\ UNCHANGED result
  /\ UNCHANGED <<fs, content, statDenied, configPath, recursive, absPath,
                 loaded, origins>>
  /\ UNCHANGED mainVars
  /\ UNCHANGED libVars
  /\ UNCHANGED firstCall

\* lines 39-56: one iteration of the loop over moduleDirs
GenLoadModule ==
  /\ pc = "loop"
  /\ dirIdx <= Len(moduleDirs)
  /\ LET moduleDir == moduleDirs[dirIdx]
         module == content[moduleDir]
     IN /\ loaded' = Append(loaded, moduleDir)
        /\ IF module.err
           THEN /\ result' = LoadFailure(sbom)
                /\ pc' = "returned"
                /\ UNCHANGED <<sbom, dirIdx, origins>>
           ELSE /\ \E calls \in Orders(module.calls) :
                     sbom' = PtrTo([sbom[1] EXCEPT
                                      !.Modules = AppendEach(@, ModuleInfosOf(calls))])
                /\ origins' = origins \o [i \in 1..Cardinality(module.calls) |-> moduleDir]
                /\ dirIdx' = dirIdx + 1
                /\ UNCHANGED <<pc, result>>
  /\ UNCHANGED <<fs, content, statDenied, configPath, recursive, absPath,
                 moduleDirs, stderr, visited, pruned>>
  /\ UNCHANGED mainVars
  /\ UNCHANGED libVars
  /\ UNCHANGED firstCall

\* line 58: return the SBOM
GenReturn ==
  /\ pc = "loop"
  /\ dirIdx > Len(moduleDirs)
  /\ Return(sbom, Nil)
  /\ UNCHANGED <<fs, content, statDenied, configPath, recursive, absPath,
                 moduleDirs, dirIdx, sbom, stderr, visited, pruned, loaded,
                 origins>>
  /\ UNCHANGED mainVars
  /\ UNCHANGED libVars
  /\ UNCHANGED firstCall

GenNext == GenValidate \/ GenAbs \/ GenFind \/ GenLoadModule \/ GenReturn

SpecGen == GenInit /\ [][GenNext]_vars

\* ---------------------------------------------------------------- the CLI
\* format names, as the strings the export switch compares against
FmtJSON == <<"j", "s", "o", "n">>
FmtXML == <<"x", "m", "l">>
FmtCSV == <<"c", "s", "v">>
FmtTSV == <<"t", "s", "v">>
FmtSPDX == <<"s", "p", "d", "x">>
FmtCycloneDX == <<"c", "y", "c", "l", "o", "n", "e", "d", "x">>
FmtYAML == <<"y", "a", "m", "l">>

Comma == ","

\* index of the first occurrence of character c in s, 0 when there is none
RECURSIVE IndexOf(_, _)
IndexOf(s, c) ==
  IF s = <<>> THEN 0
  ELSE IF Head(s) = c THEN 1
  ELSE LET i == IndexOf(Tail(s), c) IN IF i = 0 THEN 0 ELSE i + 1

\* strings.Split(s, sep) for a one-character separator
RECURSIVE Split(_, _)
Split(s, sep) ==
  LET i == IndexOf(s, sep) IN
  IF i = 0 THEN <<s>>
  ELSE <<SubSeq(s, 1, i - 1)>> \o Split(SubSeq(s, i + 1, Len(s)), sep)

IsSpace(c) == c \in {" ", "\t", "\n", "\r"}

\* strings.TrimSpace
RECURSIVE TrimSpace(_)
TrimSpace(s) ==
  IF s = <<>> THEN s
  ELSE IF IsSpace(Head(s)) THEN TrimSpace(Tail(s))
  ELSE IF IsSpace(s[Len(s)]) THEN TrimSpace(SubSeq(s, 1, Len(s) - 1))
  ELSE s

ErrMissingArg == "missing terraform-directory argument"

\* flags.go: the -f value defaults to "json" when the flag is absent
ParseFlags(a) ==
  IF Len(a.dirs) < 1
  THEN [config |-> NilPtr, err |-> ErrMissingArg]
  ELSE LET format  == IF a.f = <<>> THEN FmtJSON ELSE a.f[1]
           formats == Split(format, Comma)
       IN [config |-> PtrTo([Format     |-> [i \in 1..Len(formats) |-> TrimSpace(formats[i])],
                             Output     |-> a.o,
                             Verbose    |-> a.v,
                             Recursive  |-> a.r,
                             ConfigPath |-> a.dirs[1]]),
           err |-> Nil]

\* the suffix from the first "." of the path
ExtFirstDot(path) ==
  IF IndexOf(path, ".") = 0 THEN <<>>
  ELSE SubSeq(path, IndexOf(path, "."), Len(path))

\* filepath.Ext: the suffix from the last "." of the last path element
RECURSIVE ExtFrom(_, _)
ExtFrom(path, i) ==
  IF i < 1 THEN <<>>
  ELSE IF path[i] = "/" THEN <<>>
  ELSE IF path[i] = "." THEN SubSeq(path, i, Len(path))
  ELSE ExtFrom(path, i - 1)

Ext(path) == ExtFrom(path, Len(path))

\* strings.TrimSuffix
TrimSuffix(s, suf) ==
  IF HasSuffix(s, suf) THEN SubSeq(s, 1, Len(s) - Len(suf)) ELSE s

DotJSON == <<".">> \o FmtJSON

\* every format's file getting the extension .json
ExtensionJSONOnly(format) == DotJSON

\* the extension each format's file gets
Extension(format) ==
  CASE format = FmtJSON -> DotJSON
    [] format = FmtXML -> <<".">> \o FmtXML
    [] format = FmtCSV -> <<".">> \o FmtCSV
    [] format = FmtTSV -> <<".">> \o FmtTSV
    [] format = FmtSPDX -> <<".">> \o FmtSPDX \o DotJSON
    [] format = FmtCycloneDX -> <<".">> \o FmtCycloneDX \o DotJSON
    [] OTHER -> DotJSON

DefaultBase == <<"s", "b", "o", "m">>

GenerateOutputFilename(baseOutput, format) ==
  IF baseOutput = <<>>
  THEN DefaultBase \o Extension(format)
  ELSE LET ext  == Ext(baseOutput)
           base == TrimSuffix(baseOutput, ext)
       IN base \o Extension(format)

\* An error of the export package is a tuple of message parts; <<>> is nil.
NoError == <<>>
ErrNilSBOM == <<"sbom cannot be nil">>
ErrEmptyFormat == <<"format cannot be empty">>
ErrEmptyPath == <<"output path cannot be empty">>
ErrCreate == <<"failed to create output file">>
ErrUnsupported(format) ==
  <<"unsupported format:", format, "(supported: json, xml, csv, tsv, spdx, cyclonedx)">>

SupportedFormats == {FmtJSON, FmtXML, FmtCSV, FmtTSV, FmtSPDX, FmtCycloneDX}

\* what an encoder reports when writing to the file fails
EncoderError(format) ==
  CASE format = FmtJSON -> <<"failed to encode SBOM as JSON">>
    [] format = FmtCSV -> <<"failed to flush", "CSV", "writer">>
    [] format = FmtTSV -> <<"failed to flush", "TSV", "writer">>
    [] OTHER -> <<"write error">>

\* ------------------------------------------------------------ spdx.go
NoAssertion == "NOASSERTION"

\* the package numbered from one
PackageOfOneBased(module, i) ==
  [PackageName             |-> module.Name,
   PackageSPDXIdentifier   |-> <<"SPDXRef-Package-">> \o Digits(i + 1),
   PackageDownloadLocation |-> module.Source,
   PackageCopyrightText    |-> NoAssertion,
   PackageVersion          |-> IF module.Version # "" THEN module.Version
                               ELSE NoAssertion]

\* the package carrying the module's version as it is
PackageOfPlainVersion(module, i) ==
  [PackageName             |-> module.Name,
   PackageSPDXIdentifier   |-> <<"SPDXRef-Package-">> \o Digits(i),
   PackageDownloadLocation |-> module.Source,
   PackageCopyrightText    |-> NoAssertion,
   PackageVersion          |-> module.Version]

\* lines 33-49: the package built for the module at (0-based) index i
PackageOf(module, i) ==
  [PackageName             |-> module.Name,
   PackageSPDXIdentifier   |-> <<"SPDXRef-Package-">> \o Digits(i),
   PackageDownloadLocation |-> module.Source,
   PackageCopyrightText    |-> NoAssertion,
   PackageVersion          |-> IF module.Version # "" THEN module.Version
                               ELSE NoAssertion]

\* ConvertToSPDX on a non-nil SBOM, time.Now() answering now
ConvertToSPDX(s, now) ==
  LET modules == s[1].Modules.elems IN
  [SPDXVersion       |-> "SPDX-2.3",
   DataLicense       |-> "CC0-1.0",
   SPDXIdentifier    |-> "SPDXRef-DOCUMENT",
   DocumentName      |-> "Terraform Configuration SBOM",
   DocumentNamespace |-> <<"https://terraform-sbom.local/", now>>,
   CreationInfo      |-> [Created  |-> now,
                          Creators |-> <<[Creator |-> "Tool: terraform-sbom"]>>],
   Packages          |-> [k \in 1..Len(modules) |-> PackageOf(modules[k], k - 1)]]

\* ------------------------------------------------------------ cyclonedx.go
\* the component grouped by the last part of the source
ComponentOfLastPart(module) ==
  [Type    |-> "library",
   Name    |-> module.Name,
   Version |-> IF module.Version # "" THEN module.Version ELSE "",
   Group   |-> IF Len(module.Source) > 0
               THEN LET parts == Split(module.Source, "/") IN parts[Len(parts)]
               ELSE <<>>]

\* lines 35-57: the component built for one module
ComponentOf(module) ==
  [Type    |-> "library",
   Name    |-> module.Name,
   Version |-> IF module.Version # "" THEN module.Version ELSE "",
   Group   |-> IF Len(module.Source) > 0
               THEN LET parts == Split(module.Source, "/") IN
                    IF Len(parts) > 0 THEN parts[1] ELSE <<>>
               ELSE <<>>]

\* ConvertToCycloneDX on a non-nil SBOM, time.Now() answering now
ConvertToCycloneDX(s, now) ==
  LET modules == s[1].Modules.elems IN
  [BOMFormat   |-> "CycloneDX",
   SpecVersion |-> "1.6",
   Version     |-> 1,
   Metadata    |-> [Timestamp |-> now,
                    Tools     |-> <<[Name |-> "terraform-sbom", Version |-> "1.0.0"]>>],
   Components  |-> PtrTo([isNil |-> FALSE,
                          elems |-> [k \in 1..Len(modules) |-> ComponentOf(modules[k])]])]

\* A file holds nothing, a whole document, or a torn one (a write failed
\* part-way).  The document is the SBOM rendered in the format.
EmptyFile == [data |-> <<>>, torn |-> FALSE]
\* csv.Writer: the fields of one record joined by the separator.  The
\* modelled fields hold no separator, quote or line break, so none is quoted.
RECURSIVE JoinFields(_, _)
JoinFields(fields, separator) ==
  IF Len(fields) <= 1 THEN fields
  ELSE <<Head(fields), separator>> \o JoinFields(Tail(fields), separator)

DelimitedHeaders == <<"Name", "Source", "Version", "Location">>

DelimitedRecord(module) ==
  <<module.Name, module.Source, module.Version, module.Location>>

\* the rows of the modules written from the last module to the first
exportDelimitedReversed(s, separator) ==
  LET modules == s[1].Modules.elems IN
  <<JoinFields(DelimitedHeaders, separator)>>
  \o [i \in 1..Len(modules) |->
       JoinFields(DelimitedRecord(modules[Len(modules) - i + 1]), separator)]

\* exportDelimited: the header row, then one row per module, in order
exportDelimited(s, separator) ==
  LET modules == s[1].Modules.elems IN
  <<JoinFields(DelimitedHeaders, separator)>>
  \o [i \in 1..Len(modules) |-> JoinFields(DelimitedRecord(modules[i]), separator)]

CSV(s) == exportDelimited(s, ",")
TSV(s) == exportDelimited(s, "\t")

\* ------------------------------------------------------------ XML
\* Text is a sequence of chunks in which every character XML treats
\* specially stands alone.  Name and Version are held as whole strings;
\* these are their chunks.
Chunks(str) ==
  CASE str = "" -> <<>>
    [] str = "~> 5.0" -> <<"~", ">", " 5.0">>
    [] OTHER -> <<str>>

\* the string made of the chunks
StringOf(chunks) ==
  IF chunks = <<>> THEN ""
  ELSE IF chunks = <<"~", ">", " 5.0">> THEN "~> 5.0"
  ELSE chunks[1]

\* xml.EscapeText, on one character
EscapeChar(c) ==
  CASE c = "\"" -> "&#34;"
    [] c = "'" -> "&#39;"
    [] c = "&" -> "&amp;"
    [] c = "<" -> "&lt;"
    [] c = ">" -> "&gt;"
    [] c = "\t" -> "&#x9;"
    [] c = "\n" -> "&#xA;"
    [] c = "\r" -> "&#xD;"
    [] OTHER -> c

EscapeText(text) == [i \in 1..Len(text) |-> EscapeChar(text[i])]

\* the decoder's reading of an entity
UnescapeChar(c) ==
  CASE c = "&#34;" -> "\""
    [] c = "&#39;" -> "'"
    [] c = "&amp;" -> "&"
    [] c = "&lt;" -> "<"
    [] c = "&gt;" -> ">"
    [] c = "&#x9;" -> "\t"
    [] c = "&#xA;" -> "\n"
    [] c = "&#xD;" -> "\r"
    [] OTHER -> c

UnescapeText(text) == [i \in 1..Len(text) |-> UnescapeChar(text[i])]

\* xml.Header
XMLDeclaration == "<?xml version=\"1.0\" encoding=\"UTF-8\"?>"
XMLHeader == <<XMLDeclaration, "\n">>

\* the element encoding/xml writes for one ModuleInfo (types.go, xml tags)
ModuleElement(module) ==
  [tag      |-> "Module",
   name     |-> EscapeText(Chunks(module.Name)),
   source   |-> EscapeText(module.Source),
   version  |-> EscapeText(Chunks(module.Version)),
   location |-> EscapeText(module.Location),
   filename |-> EscapeText(module.Filename)]

\* the element encoding/xml writes for the SBOM: three attributes and the
\* modules, in order
SBOMElement(s) ==
  [tag       |-> "SBOM",
   version   |-> EscapeText(Chunks(s[1].Version)),
   generated |-> EscapeText(Chunks(s[1].Generated)),
   tool      |-> EscapeText(Chunks(s[1].Tool)),
   Modules   |-> [i \in 1..Len(s[1].Modules.elems) |->
                    ModuleElement(s[1].Modules.elems[i])]]

\* xml.Unmarshal into an sbom.SBOM, of an output that starts with the
\* header and holds one SBOM element
Unmarshal(output) ==
  LET root == output[Len(XMLHeader) + 1] IN
  [Version   |-> StringOf(UnescapeText(root.version)),
   Generated |-> StringOf(UnescapeText(root.generated)),
   Tool      |-> StringOf(UnescapeText(root.tool)),
   Modules   |-> [isNil |-> Len(root.Modules) = 0,
                  elems |-> [i \in 1..Len(root.Modules) |->
                     [Name     |-> StringOf(UnescapeText(root.Modules[i].name)),
                      Source   |-> UnescapeText(root.Modules[i].source),
                      Version  |-> StringOf(UnescapeText(root.Modules[i].version)),
                      Location |-> UnescapeText(root.Modules[i].location),
                      Filename |-> UnescapeText(root.Modules[i].filename)]]]]

ErrXMLHeader == <<"failed to write XML header">>
ErrXMLEncode == <<"failed to encode SBOM as XML">>

\* How the writer behaves: every write succeeds, the first write fails, or
\* the first succeeds and the next fails.
WriterOutcomes == {"ok", "write fails", "later write fails"}

\* XML writing the body first and the header second
XMLBodyFirst(s, w) ==
  IF s = NilPtr
  THEN [err |-> IF w = "write fails" THEN ErrXMLHeader ELSE NoError,
        writes |-> <<[data |-> XMLHeader, ok |-> w # "write fails"]>>]
  ELSE IF w = "write fails"
  THEN [err |-> ErrXMLEncode,
        writes |-> <<[data |-> <<SBOMElement(s)>>, ok |-> FALSE]>>]
  ELSE IF w = "later write fails"
  THEN [err |-> ErrXMLHeader,
        writes |-> <<[data |-> <<SBOMElement(s)>>, ok |-> TRUE],
                     [data |-> XMLHeader, ok |-> FALSE]>>]
  ELSE [err |-> NoError,
        writes |-> <<[data |-> <<SBOMElement(s)>>, ok |-> TRUE],
                     [data |-> XMLHeader, ok |-> TRUE]>>]

\* XML(s, writer): the header is written, then the encoder writes the
\* element (nothing for a nil SBOM); writes lists the calls of
\* writer.Write
XML(s, w) ==
  IF w = "write fails"
  THEN [err |-> ErrXMLHeader, writes |-> <<[data |-> XMLHeader, ok |-> FALSE]>>]
  ELSE IF s = NilPtr
  THEN [err |-> NoError, writes |-> <<[data |-> XMLHeader, ok |-> TRUE]>>]
  ELSE IF w = "later write fails"
  THEN [err |-> ErrXMLEncode,
        writes |-> <<[data |-> XMLHeader, ok |-> TRUE],
                     [data |-> <<SBOMElement(s)>>, ok |-> FALSE]>>]
  ELSE [err |-> NoError,
        writes |-> <<[data |-> XMLHeader, ok |-> TRUE],
                     [data |-> <<SBOMElement(s)>>, ok |-> TRUE]>>]

\* what the successful writes put into the writer, in order
RECURSIVE Output(_)
Output(writes) ==
  IF writes = <<>> THEN <<>>
  ELSE (IF Head(writes).ok THEN Head(writes).data ELSE <<>>) \o Output(Tail(writes))

\* what the encoder of the format writes for the SBOM
Document(format, s) ==
  CASE format = FmtCSV -> CSV(s)
    [] format = FmtTSV -> TSV(s)
    [] format = FmtXML -> Output(XML(s, "ok").writes)
    [] OTHER -> [format |-> format, sbom |-> s[1]]
WholeFile(format, s) == [data |-> <<Document(format, s)>>, torn |-> FALSE]
TornFile(format, s) == [data |-> <<Document(format, s)>>, torn |-> TRUE]

\* os.Create: the file exists afterwards and is empty
Create(fls, path) ==
  [q \in DOMAIN fls \cup {path} |-> IF q = path THEN EmptyFile ELSE fls[q]]

\* what the operating system does to the calls of one Export
IoOutcomes == {"create fails"} \cup WriterOutcomes

\* the error of the format's encoder writing to a file that behaves as io:
\* XML writes twice, the other encoders hand the file one write
EncodeError(format, s, io) ==
  IF format = FmtXML THEN XML(s, io).err
  ELSE IF io = "write fails" THEN EncoderError(format)
  ELSE NoError

\* Export creating the output file before it looks at its arguments
ExportCreateFirst(s, format, outputPath, io, fls) ==
  LET created == IF outputPath = <<>> \/ io = "create fails" THEN fls
                 ELSE Create(fls, outputPath)
  IN IF s = NilPtr THEN [err |-> ErrNilSBOM, files |-> created]
     ELSE IF format = <<>> THEN [err |-> ErrEmptyFormat, files |-> created]
     ELSE IF outputPath = <<>> THEN [err |-> ErrEmptyPath, files |-> created]
     ELSE [err |-> ErrCreate, files |-> created]

\* export.go: Export, under I/O outcome io, on the files fls
Export(s, format, outputPath, io, fls) ==
  IF s = NilPtr THEN [err |-> ErrNilSBOM, files |-> fls]
  ELSE IF format = <<>> THEN [err |-> ErrEmptyFormat, files |-> fls]
  ELSE IF outputPath = <<>> THEN [err |-> ErrEmptyPath, files |-> fls]
  ELSE IF io = "create fails" THEN [err |-> ErrCreate, files |-> fls]
  ELSE LET created == Create(fls, outputPath) IN
       IF format \in SupportedFormats
       THEN IF EncodeError(format, s, io) # NoError
            THEN [err   |-> EncodeError(format, s, io),
                  files |-> [created EXCEPT ![outputPath] = TornFile(format, s)]]
            ELSE [err   |-> NoError,
                  files |-> [created EXCEPT ![outputPath] = WholeFile(format, s)]]
       ELSE [err |-> ErrUnsupported(format), files |-> created]

\* an encoder that consumes the module list it serialises
SBOMAfterExportConsumed(s, format) ==
  IF s = NilPtr THEN s ELSE PtrTo([s[1] EXCEPT !.Modules = EmptySlice])

\* the SBOM s points to once Export has returned: neither Export nor any
\* encoder assigns through s
SBOMAfterExport(s, format) == s

\* the export loop going on to the next format whatever Export returned
AfterExportContinue(err, i) ==
  [pc |-> "export", exitCode |-> NilPtr, fmtIdx |-> i + 1]

\* main, lines 4717-4722: os.Exit(1) on an export error, else the next format
AfterExport(err, i) ==
  IF err # NoError
  THEN [pc |-> "exited", exitCode |-> PtrTo(1), fmtIdx |-> i]
  ELSE [pc |-> "export", exitCode |-> NilPtr, fmtIdx |-> i + 1]

\* the command lines of the modelled runs; the flags themselves are well
\* formed (flag.Parse exits on a malformed one before any of this code)
OutputX == <<"o", ".", "x">>
FormatArgs ==
  {<<>>,
   << <<>> >>,
   <<FmtJSON \o <<",">> \o FmtXML>>,
   <<FmtYAML \o <<",">> \o FmtJSON>>,
   <<FmtJSON \o <<",">> \o FmtYAML>>,
   <<FmtCSV \o <<",", " ">> \o FmtTSV>>,
   <<FmtJSON \o <<",">> \o FmtSPDX \o <<",">> \o FmtCycloneDX>>}
OutputArgs == {<<>>, <<"o">>, OutputX}

ArgsFor(rn) ==
  [f : FormatArgs, o : OutputArgs, v : BOOLEAN, r : BOOLEAN,
   dirs : {<<>>, << <<rn>> >>}]

\* the trees of the modelled runs: a .tf file in the root, a subdirectory,
\* a .tf file in the subdirectory
MainPaths == {<<NameTf>>, <<NameA>>, <<NameA, NameTf>>}
MainTrees == {T \in SUBSET MainPaths : \A q \in T : Len(q) > 1 => Parent(q) \in T}

\* the directory name the small trees hang under
FinderRoot == <<"p">>

\* a file an earlier run left at o.json
OldFile == WholeFile(FmtJSON, PtrTo(NewSBOM("2024-01-01T00:00:00Z")))
InitialFiles == {NoFiles, [p \in {<<"o">> \o DotJSON} |-> OldFile]}

Init ==
  /\ \E rn \in {<<"p">>} : FsInit(rn, MainTrees) /\ args \in ArgsFor(rn)
  /\ files \in InitialFiles
  /\ configPath = <<>>
  /\ recursive = FALSE
  /\ pc = "parse"
  /\ absPath = <<>>
  /\ moduleDirs = <<>>
  /\ dirIdx = 0
  /\ sbom = NilPtr
  /\ result = NoResult
  /\ stderr = <<>>
  /\ visited = <<>>
  /\ pruned = <<>>
  /\ loaded = <<>>
  /\ origins = <<>>
  /\ config = NilPtr
  /\ fmtIdx = 0
  /\ stdout = <<>>
  /\ exitCode = NilPtr
  /\ exported = <<>>
  /\ call = NoCall
  /\ ret = NoRet
  /\ firstCall = NilPtr

genVars == <<fs, content, statDenied, absPath, moduleDirs, dirIdx, sbom, result,
             visited, pruned, loaded, origins>>

\* main, lines 4688-4698: parse the flags, exit 1 on an error, else call
\* Generate with the configured path and mode
MainParseFlags ==
  /\ pc = "parse"
  /\ LET r == ParseFlags(args) IN
     IF r.err # Nil
     THEN /\ stderr' = Append(stderr, <<"Usage:">>)
          /\ exitCode' = PtrTo(1)
          /\ pc' = "exited"
          /\ UNCHANGED <<config, configPath, recursive, stdout>>
     ELSE LET c == r.config[1] IN
          /\ config' = r.config
          /\ stdout' = stdout \o
               (IF c.Verbose
                THEN << <<"Generating SBOM for Terraform configuration in:", c.ConfigPath>>,
                        <<"Output formats:", c.Format>> >>
                ELSE <<>>)
          /\ configPath' = c.ConfigPath
          /\ recursive' = c.Recursive
          /\ pc' = "validate"
          /\ UNCHANGED <<stderr, exitCode>>
  /\ UNCHANGED <<args, fmtIdx, files, exported>>
  /\ UNCHANGED genVars
  /\ UNCHANGED libVars
  /\ UNCHANGED firstCall

\* a run giving up when no module call was found
AfterGenerateFailEmpty(n) ==
  IF n = 0
  THEN [pc |-> "exited", exitCode |-> PtrTo(1)]
  ELSE [pc |-> "export", exitCode |-> NilPtr]

\* main, lines 4704-4708: neither branch of the test on len(s.Modules)
\* leaves main; the export loop follows both
AfterGenerate(n) == [pc |-> "export", exitCode |-> NilPtr]

\* main, lines 4699-4708: Generate has returned
MainGenerated ==
  /\ pc = "returned"
  /\ IF result.err # Nil
     THEN /\ stderr' = Append(stderr, <<"Error:", result.err>>)
          /\ exitCode' = PtrTo(1)
          /\ pc' = "exited"
          /\ UNCHANGED <<stdout, fmtIdx>>
     ELSE LET s == result.sbom[1] IN
          /\ IF Len(s.Modules.elems) = 0
             THEN /\ stderr' = Append(stderr, <<"Warning: No module calls found in",
                                               config[1].ConfigPath>>)
                  /\ UNCHANGED stdout
             ELSE /\ stdout' = Append(stdout, <<"Found", Len(s.Modules.elems)>>)
                  /\ UNCHANGED stderr
          /\ fmtIdx' = 1
          /\ pc' = AfterGenerate(Len(s.Modules.elems)).pc
          /\ exitCode' = AfterGenerate(Len(s.Modules.elems)).exitCode
  /\ UNCHANGED <<args, config, files, exported, configPath, recursive>>
  /\ UNCHANGED genVars
  /\ UNCHANGED libVars
  /\ UNCHANGED firstCall

\* the loop taking the formats from the last to the first
FormatAtReversed(formats, i) == formats[Len(formats) - i + 1]

\* main, line 4711: the i-th iteration of `for _, formatType := range
\* config.Format`
FormatAt(formats, i) == formats[i]

\* main, lines 4711-4723: one iteration of the loop over config.Format
MainExport ==
  /\ pc = "export"
  /\ fmtIdx <= Len(config[1].Format)
  /\ LET formatType == FormatAt(config[1].Format, fmtIdx)
         outputFile == GenerateOutputFilename(config[1].Output, formatType)
         announced  == IF config[1].Verbose
                       THEN Append(stdout, <<"Exporting", formatType, outputFile>>)
                       ELSE stdout
     IN \E io \in IoOutcomes :
          LET e    == Export(result.sbom, formatType, outputFile, io, files)
              next == AfterExport(e.err, fmtIdx)
          IN /\ files' = e.files
             /\ result' = [result EXCEPT !.sbom = SBOMAfterExport(@, formatType)]
             /\ exported' = Append(exported, [format |-> formatType,
                                              path |-> outputFile, err |-> e.err,
                                              s |-> result.sbom])
             /\ IF e.err # NoError
                THEN /\ stderr' = Append(stderr, <<"Error exporting", formatType, e.err>>)
                     /\ stdout' = announced
                ELSE /\ stdout' = Append(announced, <<"SBOM successfully exported to",
                                                     outputFile, formatType>>)
                     /\ UNCHANGED stderr
             /\ pc' = next.pc
             /\ exitCode' = next.exitCode
             /\ fmtIdx' = next.fmtIdx
  /\ UNCHANGED <<args, config, configPath, recursive>>
  /\ UNCHANGED <<fs, content, statDenied, absPath, moduleDirs, dirIdx, sbom,
                 visited, pruned, loaded, origins>>
  /\ UNCHANGED libVars
  /\ UNCHANGED firstCall

\* main, line 4724: every format is exported, main returns
MainExit ==
  /\ pc = "export"
  /\ fmtIdx > Len(config[1].Format)
  /\ exitCode' = PtrTo(0)
  /\ pc' = "exited"
  /\ UNCHANGED <<args, config, fmtIdx, files, stdout, stderr, exported,
                 configPath, recursive>>
  /\ UNCHANGED genVars
  /\ UNCHANGED libVars
  /\ UNCHANGED firstCall

Next ==
  \/ MainParseFlags
  \/ GenValidate
  \/ GenAbs
  \/ GenFind
  \/ GenLoadModule
  \/ GenReturn
  \/ MainGenerated
  \/ MainExport
  \/ MainExit

Spec == Init /\ [][Next]_vars

\* ------------------------------------------------- Generate called twice
\* Generate called on the directory p, which holds one of the small trees
TwiceInit ==
  /\ configPath = <<FinderRoot>>
  /\ FsInit(FinderRoot, MainTrees)
  /\ recursive \in BOOLEAN
  /\ pc = "validate"
  /\ absPath = <<>>
  /\ moduleDirs = <<>>
  /\ dirIdx = 0
  /\ sbom = NilPtr
  /\ result = NoResult
  /\ stderr = <<>>
  /\ visited = <<>>
  /\ pruned = <<>>
  /\ loaded = <<>>
  /\ origins = <<>>
  /\ args = NoArgs
  /\ config = NilPtr
  /\ fmtIdx = 0
  /\ files = NoFiles
  /\ stdout = <<>>
  /\ exitCode = NilPtr
  /\ exported = <<>>
  /\ call = NoCall
  /\ ret = NoRet
  /\ firstCall = NilPtr

\* generator_test.go, "recursive vs non-recursive comparison": once
\* Generate has returned, the caller calls it again with the same path, in
\* either mode, on the unchanged tree
GenAgain ==
  /\ pc = "returned"
  /\ firstCall = NilPtr
  /\ firstCall' = PtrTo([recursive |-> recursive, result |-> result])
  /\ recursive' \in BOOLEAN
  /\ pc' = "validate"
  /\ absPath' = <<>>
  /\ moduleDirs' = <<>>
  /\ dirIdx' = 0
  /\ sbom' = NilPtr
  /\ result' = NoResult
  /\ visited' = <<>>
  /\ pruned' = <<>>
  /\ loaded' = <<>>
  /\ origins' = <<>>
  /\ UNCHANGED <<fs, content, statDenied, configPath, stderr>>
  /\ UNCHANGED mainVars
  /\ UNCHANGED libVars

TwiceNext ==
  \/ GenValidate
  \/ GenAbs
  \/ GenFind
  \/ GenLoadModule
  \/ GenReturn
  \/ GenAgain

SpecTwice == TwiceInit /\ [][TwiceNext]_vars

\* ------------------------------------------- package functions on their own
\* The functions of package export are exported Go functions: a caller may
\* hand them any SBOM, format and path.  The inputs below are the cases
\* their branches distinguish.
MaxModules == 2

SrcEmpty == <<>>
SrcGit == <<"g", ":", ":", "h", ":", "/", "/", "a">>

\* module records as Generate builds them, with the source kinds the
\* repository's tests use
LibModules ==
  {ModuleInfoOf([Name |-> "x", Source |-> SrcRegistry, Version |-> "~> 5.0",
                 Pos |-> [Filename |-> PathStr(<<NameA, NameTf>>), Line |-> 10]]),
   ModuleInfoOf([Name |-> "y", Source |-> SrcLocal, Version |-> "",
                 Pos |-> [Filename |-> NameTf, Line |-> 2]]),
   ModuleInfoOf([Name |-> "z", Source |-> SrcGit, Version |-> "1.0",
                 Pos |-> [Filename |-> PathStr(<<NameA, NameTf>>), Line |-> 5]]),
   ModuleInfoOf([Name |-> "x", Source |-> SrcEmpty, Version |-> "",
                 Pos |-> [Filename |-> NameTf, Line |-> 2]]),
   ModuleInfoOf([Name |-> "n", Source |-> SrcLocal, Version |-> "NOASSERTION",
                 Pos |-> [Filename |-> NameTf, Line |-> 7]])}

LibModuleLists == UNION {[1..n -> LibModules] : n \in 0..MaxModules}

\* the *SBOM arguments: nil, or an SBOM whose Modules slice is nil or holds
\* the listed records
LibSBOMs ==
  {NilPtr} \cup {PtrTo(NewSBOMNilModules(t)) : t \in Timestamps}
  \cup {PtrTo([NewSBOM(t) EXCEPT !.Modules = AppendEach(EmptySlice, ms)]) :
          t \in Timestamps, ms \in LibModuleLists}

LibFormats == SupportedFormats \cup {<<>>, FmtYAML}
LibPaths == {<<>>, <<"o">> \o DotJSON}

\* -o values: none, plain, with one or several extensions, hidden, and
\* with a directory part
BaseO == <<"o">>
BaseTarGz == <<"f", "i", "l", "e", ".", "t", "a", "r", ".", "g", "z">>
BaseHidden == <<".", "h", "i", "d", "d", "e", "n">>
BaseSpdxJson == <<"m", "y", "f", "i", "l", "e", ".", "s", "p", "d", "x", ".", "j", "s", "o", "n">>
BaseInDotDir == <<".", "/", "d", "/", "o">>
BaseInExtDir == <<"d", ".", "e", "/", "o", ".", "x">>
LibBases == {<<>>, BaseO, OutputX, BaseTarGz, BaseHidden, BaseSpdxJson,
             BaseInDotDir, BaseInExtDir}

ExportCalls ==
  [fn : {"Export"}, s : LibSBOMs, format : LibFormats, outputPath : LibPaths,
   io : IoOutcomes, files : InitialFiles]

FilenameCalls ==
  [fn : {"GenerateOutputFilename"}, baseOutput : LibBases, format : LibFormats]

ConvertCalls == [fn : {"ConvertToSPDX", "ConvertToCycloneDX"}, s : LibSBOMs]

XMLCalls == [fn : {"XML"}, s : LibSBOMs, writer : WriterOutcomes]

\* the directories handed to the finder: the root, entries below it, and a
\* path that does not exist
FinderDirs ==
  {Cwd \o <<FinderRoot>> \o q : q \in {<<>>} \cup MainPaths} \cup {Cwd \o << <<"q">> >>}
FinderCalls == [fn : {"HasTerraformFiles"}, dir : FinderDirs]

LibCalls ==
  ExportCalls \cup FilenameCalls \cup ConvertCalls \cup XMLCalls \cup FinderCalls

LibInit ==
  /\ call \in LibCalls
  /\ files = IF call.fn = "Export" THEN call.files ELSE NoFiles
  /\ ret = NoRet
  /\ pc = "call"
  /\ IF call.fn \in {"HasTerraformFiles"}
     THEN FsInit(FinderRoot, MainTrees)
     ELSE fs = NoFs /\ content = <<>> /\ statDenied = FALSE
  /\ configPath = <<>>
  /\ recursive = FALSE
  /\ absPath = <<>>
  /\ moduleDirs = <<>>
  /\ dirIdx = 0
  /\ sbom = NilPtr
  /\ result = NoResult
  /\ stderr = <<>>
  /\ visited = <<>>
  /\ pruned = <<>>
  /\ loaded = <<>>
  /\ origins = <<>>
  /\ args = NoArgs
  /\ config = NilPtr
  /\ fmtIdx = 0
  /\ stdout = <<>>
  /\ exitCode = NilPtr
  /\ exported = <<>>
  /\ firstCall = NilPtr

runVars == <<fs, content, statDenied, configPath, recursive, absPath,
             moduleDirs, dirIdx, sbom, result, stderr, visited, pruned, loaded,
             origins, args, config, fmtIdx, stdout, exitCode, exported>>

\* export.Export(call.s, call.format, call.outputPath)
CallExport ==
  /\ pc = "call"
  /\ call.fn = "Export"
  /\ LET e == Export(call.s, call.format, call.outputPath, call.io, files) IN
     /\ files' = e.files
     /\ ret' = [fn |-> "Export", err |-> e.err]
  /\ pc' = "done"
  /\ UNCHANGED call
  /\ UNCHANGED runVars
  /\ UNCHANGED firstCall

\* export.GenerateOutputFilename(call.baseOutput, call.format)
CallGenerateOutputFilename ==
  /\ pc = "call"
  /\ call.fn = "GenerateOutputFilename"
  /\ ret' = [fn |-> "GenerateOutputFilename",
             name |-> GenerateOutputFilename(call.baseOutput, call.format)]
  /\ pc' = "done"
  /\ UNCHANGED <<call, files>>
  /\ UNCHANGED runVars
  /\ UNCHANGED firstCall

\* export.ConvertToSPDX(call.s); a nil SBOM is dereferenced and panics
CallConvertToSPDX ==
  /\ pc = "call"
  /\ call.fn = "ConvertToSPDX"
  /\ \E now \in Timestamps :
       ret' = IF call.s = NilPtr
              THEN [fn |-> "ConvertToSPDX", panic |-> TRUE, doc |-> NilPtr]
              ELSE [fn |-> "ConvertToSPDX", panic |-> FALSE,
                    doc |-> PtrTo(ConvertToSPDX(call.s, now))]
  /\ pc' = "done"
  /\ UNCHANGED <<call, files>>
  /\ UNCHANGED runVars
  /\ UNCHANGED firstCall

\* export.ConvertToCycloneDX(call.s); a nil SBOM is dereferenced and panics
CallConvertToCycloneDX ==
  /\ pc = "call"
  /\ call.fn = "ConvertToCycloneDX"
  /\ \E now \in Timestamps :
       ret' = IF call.s = NilPtr
              THEN [fn |-> "ConvertToCycloneDX", panic |-> TRUE, bom |-> NilPtr]
              ELSE [fn |-> "ConvertToCycloneDX", panic |-> FALSE,
                    bom |-> PtrTo(ConvertToCycloneDX(call.s, now))]
  /\ pc' = "done"
  /\ UNCHANGED <<call, files>>
  /\ UNCHANGED runVars
  /\ UNCHANGED firstCall

\* export.XML(call.s, writer) with a writer that behaves as call.writer
CallXML ==
  /\ pc = "call"
  /\ call.fn = "XML"
  /\ LET x == XML(call.s, call.writer) IN
     ret' = [fn |-> "XML", err |-> x.err, writes |-> x.writes]
  /\ pc' = "done"
  /\ UNCHANGED <<call, files>>
  /\ UNCHANGED runVars
  /\ UNCHANGED firstCall

\* xml.Unmarshal of what a successful XML call wrote; an output that holds
\* the header only has no element to read
ReparseXML ==
  /\ pc = "done"
  /\ ret.fn = "XML"
  /\ ret.err = NoError
  /\ LET output == Output(ret.writes) IN
     ret' = IF Len(output) > Len(XMLHeader)
            THEN [fn |-> "xml.Unmarshal", err |-> Nil, sbom |-> PtrTo(Unmarshal(output))]
            ELSE [fn |-> "xml.Unmarshal", err |-> "EOF", sbom |-> NilPtr]
  /\ pc' = "reparsed"
  /\ UNCHANGED <<call, files>>
  /\ UNCHANGED runVars
  /\ UNCHANGED firstCall

\* sbom.HasTerraformFiles(call.dir)
CallHasTerraformFiles ==
  /\ pc = "call"
  /\ call.fn = "HasTerraformFiles"
  /\ ret' = [fn |-> "HasTerraformFiles", has |-> HasTerraformFiles(call.dir)]
  /\ pc' = "done"
  /\ UNCHANGED <<call, files>>
  /\ UNCHANGED runVars
  /\ UNCHANGED firstCall

LibNext ==
  \/ CallHasTerraformFiles
  \/ CallExport
  \/ CallGenerateOutputFilename
  \/ CallConvertToSPDX
  \/ CallConvertToCycloneDX
  \/ CallXML
  \/ ReparseXML

SpecLib == LibInit /\ [][LibNext]_vars

\* ---------------------------------------------------------------- properties
\* Vocabulary of the properties, stated over the file system alone.
Root == Cwd \o configPath

Range(seq) == {seq[i] : i \in 1..Len(seq)}

Hidden(name) == name[1] = "."

IsTfName(name) ==
  Len(name) >= 3 /\ name[Len(name) - 2] = "." /\ name[Len(name) - 1] = "t"
  /\ name[Len(name)] = "f"

\* p lies strictly below q
IsBelow(p, q) == Len(p) > Len(q) /\ SubSeq(p, 1, Len(q)) = q

RealDir(p) == p \in DOMAIN fs /\ fs[p].kind = "dir"

Listable(p) == RealDir(p) /\ fs[p].readable

\* p holds a .tf file directly
DirectTf(p) ==
  \E q \in DOMAIN fs :
     Len(q) = Len(p) + 1 /\ IsBelow(q, p) /\ fs[q].kind # "dir" /\ IsTfName(Last(q))

\* some component of p below the root names a hidden directory
UnderHidden(p) ==
  \E k \in (Len(Root) + 1)..Len(p) :
     Hidden(p[k]) /\ RealDir(SubSeq(p, 1, k))

\* the walk arrives at p: every directory from the root down to p's parent
\* is a real directory that can be listed
Arrives(p) ==
  /\ p \in DOMAIN fs
  /\ p = Root \/ IsBelow(p, Root)
  /\ \A k \in Len(Root)..(Len(p) - 1) : Listable(SubSeq(p, 1, k))

Returned == pc = "returned"
Succeeded == Returned /\ result.err = Nil
Scanned == pc \in {"loop", "returned"} /\ (Returned => result.err \in {Nil, ErrLoad})

\* the module records of the SBOM Generate returned
Mods == result.sbom[1].Modules.elems

\* the names of the modules returned for directory d
ReturnedFrom(d) ==
  {Mods[i].Name : i \in {j \in 1..Len(origins) : origins[j] = d}}

\* C1: in a recursive scan a directory the walk arrives at is pruned if and
\* only if its name begins with "." and it is not the scan root; nothing
\* below a pruned directory is visited, no module declared under a hidden
\* directory is returned, and a scan root with a hidden name is scanned and
\* its modules are returned.
C1_HiddenPruned ==
  (recursive /\ Scanned) =>
     /\ \A p \in DOMAIN fs :
          (RealDir(p) /\ Arrives(p) /\ ~UnderHidden(Parent(p))) =>
             (p \in Range(pruned) <=> (Hidden(Last(p)) /\ p # Root))
     /\ \A p \in Range(visited) : \A q \in Range(pruned) : ~IsBelow(p, q)
     /\ \A d \in Range(moduleDirs) \cup Range(loaded) \cup Range(origins) :
          ~UnderHidden(d)
     /\ (Hidden(Last(Root)) /\ Listable(Root) /\ DirectTf(Root)) =>
          /\ Root \in Range(moduleDirs)
          /\ Succeeded =>
               ReturnedFrom(Root) = {c.Name : c \in content[Root].calls}

\* C1 witness: a successful recursive scan of a root named ".p" that returned
\* the root's modules while a hidden directory holding declarations below it
\* was pruned
C1_Witness ==
  /\ recursive /\ Succeeded
  /\ Hidden(Last(Root))
  /\ Root \in Range(origins)
  /\ \E d \in DOMAIN content :
       /\ IsBelow(d, Root) /\ UnderHidden(d) /\ ~Hidden(Last(d))
       /\ content[d].calls # {} /\ Listable(d)
       /\ Parent(d) \in Range(pruned)


\* os.ReadDir(p) succeeds (it follows a symbolic link to a directory)
CanList(p) == p \in DOMAIN fs /\ fs[p].kind \in {"dir", "link"} /\ fs[p].readable

\* the names the parser reports for directory d
DeclaredIn(d) == {c.Name : c \in content[d].calls}

\* C2: with recursive=false only the root's declarations are listed; with
\* recursive=true the declarations of the root and of every non-hidden
\* descendant directory that directly contains a .tf file are listed.
\* (Read in the claim's favour: only directories that can be listed and that
\* are reached through directories that can be listed are required.)
C2_RecursiveCoverage ==
  Succeeded =>
    IF ~recursive
    THEN /\ Range(origins) \subseteq {Root}
         /\ (CanList(Root) /\ DirectTf(Root)) => ReturnedFrom(Root) = DeclaredIn(Root)
    ELSE \A d \in DOMAIN fs :
           ( /\ d = Root \/ (IsBelow(d, Root) /\ RealDir(d) /\ ~UnderHidden(d))
             /\ Arrives(d) /\ CanList(d) /\ DirectTf(d) )
           => ReturnedFrom(d) = DeclaredIn(d)

\* the walk order of two visited paths
VisitedBefore(p, q) ==
  \E i, j \in 1..Len(visited) : i < j /\ visited[i] = p /\ visited[j] = q

FindDone == pc = "loop" \/ (Returned /\ result.err \in {Nil, ErrLoad, ErrFind})

\* C4: in a recursive scan an error of the walk does not abort it: each
\* directory the walk arrives at and cannot list gets a "Warning: skipping"
\* line on stderr, every other directory is still scanned,
\* FindTerraformModules returns a nil error, and when no directory fails to
\* parse Generate succeeds with the modules of all readable directories.
C4_WalkErrorsSkipped ==
  (recursive /\ FindDone) =>
    /\ ~(Returned /\ result.err = ErrFind)
    /\ \A d \in DOMAIN fs :
         (RealDir(d) /\ Arrives(d) /\ ~UnderHidden(d) /\ ~fs[d].readable)
            => <<"Warning: skipping", d>> \in Range(stderr)
    /\ \A d \in DOMAIN fs :
         (Listable(d) /\ Arrives(d) /\ ~UnderHidden(d) /\ DirectTf(d))
            => d \in Range(moduleDirs)
    /\ (Returned /\ \A d \in Range(moduleDirs) : ~content[d].err)
         => /\ Succeeded
            /\ \A d \in Range(moduleDirs) : ReturnedFrom(d) = DeclaredIn(d)

\* C4 witness: a successful recursive scan that warned about an unreadable
\* directory and returned modules of a directory visited after it
C4_Witness ==
  /\ recursive /\ Succeeded
  /\ \E u \in DOMAIN fs, d \in Range(origins) :
       /\ RealDir(u) /\ ~fs[u].readable
       /\ <<"Warning: skipping", u>> \in Range(stderr)
       /\ VisitedBefore(u, d)

\* C5: Generate is all-or-nothing: when the parser reports errors for a
\* directory it was handed, Generate returns a nil SBOM and a non-nil error.
C5_AllOrNothing ==
  Returned =>
    /\ (\E d \in Range(loaded) : content[d].err)
         => (result.sbom = NilPtr /\ result.err # Nil)
    /\ result.sbom # NilPtr => result.err = Nil

\* C5 witness: a parse failure after an earlier directory had already
\* contributed modules to the SBOM under construction
C5_Witness ==
  /\ Returned /\ result.err = ErrLoad
  /\ Len(loaded) >= 2
  /\ sbom[1].Modules.elems # <<>>
  /\ result.sbom = NilPtr


NothingScanned ==
  /\ moduleDirs = <<>> /\ visited = <<>> /\ pruned = <<>> /\ loaded = <<>>
  /\ stderr = <<>> /\ sbom = NilPtr

\* C6: validation runs before any scanning; a missing path yields "path
\* does not exist", an existing non-directory yields "path must be a
\* directory containing Terraform files", and an existing directory (even an
\* empty one) passes validation.
C6_Validation ==
  /\ pc = "validate" => NothingScanned
  /\ (pc # "validate" /\ ~statDenied) =>
       /\ Root \notin DOMAIN fs =>
            (Returned /\ result = [sbom |-> NilPtr, err |-> ErrNotExist] /\ NothingScanned)
       /\ (Root \in DOMAIN fs /\ fs[Root].kind = "file") =>
            (Returned /\ result = [sbom |-> NilPtr, err |-> ErrNotDir] /\ NothingScanned)
       /\ (Root \in DOMAIN fs /\ fs[Root].kind # "file") =>
            ~(Returned /\ result.err \in {ErrNotExist, ErrNotDir, ErrStat})

\* C6 witness: Generate called on a regular file has returned the
\* not-a-directory error
C6_Witness ==
  /\ Returned /\ Root \in DOMAIN fs /\ fs[Root].kind = "file"
  /\ result.err = ErrNotDir

\* no entry below the root is a .tf file
NoTfAnywhere ==
  \A q \in DOMAIN fs :
     IsBelow(q, Root) => ~(fs[q].kind # "dir" /\ IsTfName(Last(q)))

\* C7: a successful Generate returns Version "1.0", Tool "terraform-sbom", a
\* non-empty Generated and a non-nil Modules; on a tree without any .tf file
\* Generate succeeds (once the path is validated and made absolute), in
\* either mode, with an empty Modules list.
C7_Envelope ==
  /\ Succeeded =>
       /\ result.sbom # NilPtr
       /\ result.sbom[1].Version = "1.0"
       /\ result.sbom[1].Tool = "terraform-sbom"
       /\ result.sbom[1].Generated # ""
       /\ ~result.sbom[1].Modules.isNil
  /\ (Returned /\ NoTfAnywhere /\ result.err \notin {ErrNotExist, ErrStat, ErrNotDir, ErrAbs})
       => (Succeeded /\ Mods = <<>>)

\* C7 witness: a successful recursive scan of a tree that holds a non-.tf
\* file and an empty sub-directory but no .tf file
C7_Witness ==
  /\ Succeeded /\ recursive /\ NoTfAnywhere /\ Mods = <<>>
  /\ \E q, r \in DOMAIN fs :
       /\ IsBelow(q, Root) /\ fs[q].kind = "file"
       /\ IsBelow(r, Root) /\ RealDir(r) /\ Children(r) = {}

RECURSIVE CountCalls(_)
CountCalls(dirs) ==
  IF dirs = <<>> THEN 0
  ELSE Cardinality(content[Head(dirs)].calls) + CountCalls(Tail(dirs))

\* C8: one ModuleInfo per declaration of the scanned directories: the
\* length of Modules is the total number of declarations, and each
\* declaration has exactly one record, with its name, source and version
\* unchanged (the version empty when the declaration has none).
C8_OnePerDeclaration ==
  Succeeded =>
    /\ Len(Mods) = CountCalls(moduleDirs)
    /\ Len(origins) = Len(Mods)
    /\ \A d \in Range(moduleDirs) : \A c \in content[d].calls :
         LET J == {j \in 1..Len(Mods) : origins[j] = d /\ Mods[j].Name = c.Name} IN
         /\ Cardinality(J) = 1
         /\ \A j \in J : Mods[j].Source = c.Source /\ Mods[j].Version = c.Version

\* C8 witness: two scanned directories declare the same modules, one of
\* them without a version, and all four records are returned
C8_Witness ==
  /\ Succeeded /\ Len(moduleDirs) = 2 /\ Len(Mods) = 4
  /\ \E i, j \in 1..Len(Mods) :
       /\ origins[i] # origins[j]
       /\ Mods[i].Name = Mods[j].Name /\ Mods[i].Source = Mods[j].Source
       /\ Mods[i].Version = "" /\ Mods[j].Version = ""

\* C9: every ModuleInfo has a non-empty Filename that is the full path of
\* the declaring file, ending in "/" followed by the file name, and a
\* non-empty Location.
C9_FilenameFullPath ==
  Succeeded =>
    \A i \in 1..Len(Mods) :
       /\ Mods[i].Filename # <<>>
       /\ Mods[i].Location # <<>>
       /\ HasSuffix(Mods[i].Filename, <<"/">> \o NameTf)


\* the directories a scan is to cover, from the root, the flag and the tree
ExpectedDirs ==
  IF ~recursive
  THEN IF CanList(Root) /\ DirectTf(Root) THEN {Root} ELSE {}
  ELSE {d \in DOMAIN fs :
          Listable(d) /\ Arrives(d) /\ ~UnderHidden(d) /\ DirectTf(d)}

IsPrefixOf(s, t) == Len(s) <= Len(t) /\ SubSeq(t, 1, Len(s)) = s

\* the directory a local source "./name" declared in directory d points to
LocalTarget(d, source) == d \o <<SubSeq(source, 3, Len(source))>>

\* C10: module references are listed, never followed: the directories
\* Generate scans are fixed by the root, the recursive flag and the tree;
\* only they are parsed, every returned module was declared in one of them,
\* and a directory named only by a declaration's source contributes nothing.
C10_SourcesNotFollowed ==
  FindDone =>
    /\ Range(moduleDirs) = ExpectedDirs
    /\ IsPrefixOf(loaded, moduleDirs)
    /\ Range(origins) \subseteq Range(loaded)
    /\ Succeeded =>
         \A i \in 1..Len(Mods) :
            LET t == LocalTarget(origins[i], Mods[i].Source) IN
            (HasPrefix(Mods[i].Source, <<".", "/">>) /\ t \notin ExpectedDirs)
               => t \notin Range(loaded) \cup Range(origins)

\* C10 witness: a returned module has the local source "./a", the directory
\* it names holds declarations of its own, and none of them is listed
C10_Witness ==
  /\ Succeeded
  /\ \E i \in 1..Len(Mods) :
       LET t == LocalTarget(origins[i], Mods[i].Source) IN
       /\ Mods[i].Source = SrcLocal
       /\ t \in DOMAIN content /\ content[t].calls # {} /\ CanList(t)
       /\ t \notin Range(origins)

\* ------------------------------------------------- the failure policy (C3)
Exited == pc = "exited"
LastLine == stderr[Len(stderr)]

\* the recursive walk reported an error for some path
WalkErrorHit ==
  \E i \in 1..Len(stderr) : stderr[i][1] = "Warning: skipping"

GenerateFailed == result.err # Nil
ExportFailed == \E i \in 1..Len(exported) : exported[i].err # NoError

\* the run ended with exit status 1 after writing the line "Error: <err>"
StoppedOnGenerate ==
  Exited => /\ exitCode = PtrTo(1)
            /\ LastLine[1] = "Error:"
            /\ LastLine[2] = result.err

\* the errors that end a run: a failing step is the last of its kind, the
\* run exits with status 1 and the error is the last line of stderr
StopsOnError ==
  /\ GenerateFailed =>
       /\ exported = <<>>
       /\ files \in InitialFiles
       /\ result.err \notin {ErrLoad} => loaded = <<>>
       /\ result.err \notin {ErrLoad, ErrFind} => visited = <<>>
       /\ StoppedOnGenerate
  /\ \A i \in 1..Len(loaded) :
       content[loaded[i]].err => i = Len(loaded) /\ result.err = ErrLoad
  /\ \A i \in 1..Len(exported) :
       exported[i].err # NoError =>
         /\ i = Len(exported)
         /\ Exited
         /\ exitCode = PtrTo(1)
         /\ LastLine[1] = "Error exporting"
         /\ LastLine[2] = exported[i].format
         /\ LastLine[3] = exported[i].err

\* a run that ends with status 0 went through every directory and format
Completed ==
  /\ loaded = moduleDirs
  /\ Len(exported) = Len(config[1].Format)
  /\ \A i \in 1..Len(exported) : exported[i].format = config[1].Format[i]

\* C3 as stated: a run stops at the first error of any step, directory
\* discovery included: once the walk has reported an error for a path no
\* directory is parsed, no format is exported and the exit status is 1;
\* and an error of path validation, parsing or exporting ends the run.
C3_StopAtFirstError ==
  /\ StopsOnError
  /\ WalkErrorHit =>
       /\ loaded = <<>>
       /\ exported = <<>>
       /\ Exited => exitCode = PtrTo(1)

\* C3: an error of path validation, of resolving the absolute path, of
\* parsing a directory or of exporting a format ends the run at once: no
\* later directory is parsed, no later format is exported, the error is
\* the last line on stderr and the exit status is 1.  An error the
\* recursive walk reports for a path is only a warning: the run goes on,
\* and it ends with status 0, every found directory parsed and every
\* format exported, exactly when no other error occurs.
C3_StopExceptWalkErrors ==
  /\ StopsOnError
  /\ Exited =>
       /\ exitCode = PtrTo(0) <=>
            (args.dirs # <<>> /\ ~GenerateFailed /\ ~ExportFailed)
       /\ exitCode = PtrTo(0) => Completed

\* C3 witness: the walk reported an error, a directory was parsed after
\* it, and the first of two requested formats failed to export, which
\* ended the run before the second.
C3_Witness ==
  /\ Exited
  /\ WalkErrorHit
  /\ loaded # <<>>
  /\ Len(config[1].Format) = 2
  /\ Len(exported) = 1
  /\ exported[1].err # NoError
  /\ exitCode = PtrTo(1)

\* ------------------------------------------------------------ package export
ExportDone == pc = "done" /\ ret.fn = "Export"

\* the files are as they were when the call was made
FilesUntouched == files = call.files

\* C11: Export checks its arguments in the order SBOM, format, output path,
\* and an Export that fails one of these checks returns that check's error
\* and creates or truncates no file; when the output file cannot be created
\* the error is "failed to create output file".
C11_ValidationOrder ==
  ExportDone =>
    /\ call.s = NilPtr => ret.err = ErrNilSBOM /\ FilesUntouched
    /\ (call.s # NilPtr /\ call.format = <<>>) =>
         ret.err = ErrEmptyFormat /\ FilesUntouched
    /\ (call.s # NilPtr /\ call.format # <<>> /\ call.outputPath = <<>>) =>
         ret.err = ErrEmptyPath /\ FilesUntouched
    /\ (call.s # NilPtr /\ call.format # <<>> /\ call.outputPath # <<>>
        /\ call.io = "create fails") =>
         ret.err = ErrCreate /\ ret.err[1] = "failed to create output file"
                             /\ FilesUntouched

\* C11 witness: Export was called with an SBOM, an empty format and an
\* empty output path, and answered with the format error.
C11_Witness ==
  /\ ExportDone
  /\ call.s # NilPtr
  /\ call.format = <<>>
  /\ call.outputPath = <<>>
  /\ ret.err = ErrEmptyFormat

\* Export got past its argument checks and os.Create
ExportReachedSwitch ==
  /\ ExportDone
  /\ call.s # NilPtr /\ call.format # <<>> /\ call.outputPath # <<>>
  /\ call.io # "create fails"

\* C12: Export called with a format outside the supported set returns the
\* error "unsupported format: <format> (supported: json, xml, csv, tsv)".
C12_UnsupportedMessage ==
  (ExportReachedSwitch /\ call.format \notin SupportedFormats) =>
    /\ Len(ret.err) = 3
    /\ ret.err[1] = "unsupported format:"
    /\ ret.err[2] = call.format
    /\ ret.err[3] = "(supported: json, xml, csv, tsv)"

\* Export succeeded; Written is the document it left in the output file
ExportSucceeded == ExportReachedSwitch /\ ret.err = NoError
Written == files[call.outputPath].data[1]
InputModules == call.s[1].Modules.elems

FiveColumns(separator) ==
  <<"Name", separator, "Source", separator, "Version", separator,
    "Location", separator, "Filename">>

\* C13: a CSV or TSV export has the header row Name, Source, Version,
\* Location, Filename joined by the format's separator, and every data row
\* has five columns, the last being the module's Filename.
C13_FiveColumns ==
  (ExportSucceeded /\ call.format \in {FmtCSV, FmtTSV}) =>
    LET separator == IF call.format = FmtCSV THEN "," ELSE "\t" IN
    /\ Len(Written) = 1 + Len(InputModules)
    /\ Len(Written[1]) = 9
    /\ Written[1] = FiveColumns(separator)
    /\ \A i \in 1..Len(InputModules) :
         /\ Len(Written[i + 1]) = 9
         /\ Written[i + 1][9] = InputModules[i].Filename

FilenameDone == pc = "done" /\ ret.fn = "GenerateOutputFilename"

\* the extensions, spelled out
ExtJSON == <<".", "j", "s", "o", "n">>
ExtXML == <<".", "x", "m", "l">>
ExtCSV == <<".", "c", "s", "v">>
ExtTSV == <<".", "t", "s", "v">>
ExtSPDX == <<".", "s", "p", "d", "x", ".", "j", "s", "o", "n">>
ExtCycloneDX ==
  <<".", "c", "y", "c", "l", "o", "n", "e", "d", "x", ".", "j", "s", "o", "n">>

ExpectedExtension(format) ==
  IF format = <<"j", "s", "o", "n">> THEN ExtJSON
  ELSE IF format = <<"x", "m", "l">> THEN ExtXML
  ELSE IF format = <<"c", "s", "v">> THEN ExtCSV
  ELSE IF format = <<"t", "s", "v">> THEN ExtTSV
  ELSE IF format = <<"s", "p", "d", "x">> THEN ExtSPDX
  ELSE IF format = <<"c", "y", "c", "l", "o", "n", "e", "d", "x">> THEN ExtCycloneDX
  ELSE ExtJSON

\* the positions of character c in s
Positions(s, c) == {i \in 1..Len(s) : s[i] = c}
Max(S) == CHOOSE i \in S : \A j \in S : j <= i

\* base without the text from its final "."
CutAtFinalDot(base) ==
  IF Positions(base, ".") = {} THEN base
  ELSE SubSeq(base, 1, Max(Positions(base, ".")) - 1)

\* base without the text from the final "." of its last path element
CutAtFinalDotOfLastElement(base) ==
  LET dots    == Positions(base, ".")
      slashes == Positions(base, "/")
  IN IF dots = {} THEN base
     ELSE IF slashes # {} /\ Max(slashes) > Max(dots) THEN base
     ELSE SubSeq(base, 1, Max(dots) - 1)

FilenameExamples ==
  /\ (call.baseOutput = BaseTarGz /\ call.format = <<"j", "s", "o", "n">>) =>
       ret.name = <<"f", "i", "l", "e", ".", "t", "a", "r">> \o ExtJSON
  /\ (call.baseOutput = BaseHidden /\ call.format = <<"x", "m", "l">>) =>
       ret.name = ExtXML
  /\ (call.baseOutput = BaseSpdxJson /\ call.format = <<"s", "p", "d", "x">>) =>
       ret.name = <<"m", "y", "f", "i", "l", "e", ".", "s", "p", "d", "x">> \o ExtSPDX

\* C14 as stated: with an empty base the name is "sbom" plus the format's
\* extension; with a non-empty base it is the base without the text from
\* its final "." plus the format's extension.
C14_CutAtFinalDot ==
  FilenameDone =>
    /\ call.baseOutput = <<>> =>
         ret.name = <<"s", "b", "o", "m">> \o ExpectedExtension(call.format)
    /\ call.baseOutput # <<>> =>
         ret.name = CutAtFinalDot(call.baseOutput) \o ExpectedExtension(call.format)
    /\ FilenameExamples

\* C14: with an empty base the name is "sbom" plus the format's extension
\* (.json for an unknown or empty format); with a non-empty base it is the
\* base without the extension of its last path element (the text from the
\* final "." that follows the final "/"), plus the format's extension.
C14_OutputFilename ==
  FilenameDone =>
    /\ call.baseOutput = <<>> =>
         ret.name = <<"s", "b", "o", "m">> \o ExpectedExtension(call.format)
    /\ call.baseOutput # <<>> =>
         ret.name = CutAtFinalDotOfLastElement(call.baseOutput)
                    \o ExpectedExtension(call.format)
    /\ FilenameExamples

\* C14 witness: a base with two extensions was combined with json and only
\* the last extension was replaced.
C14_Witness ==
  /\ FilenameDone
  /\ call.baseOutput = BaseTarGz
  /\ call.format = <<"j", "s", "o", "n">>
  /\ ret.name = <<"f", "i", "l", "e", ".", "t", "a", "r", ".", "j", "s", "o", "n">>

\* the run ended with status 0 after exporting several pairwise distinct
\* supported formats
SeveralFormatsExported ==
  /\ Exited
  /\ exitCode = PtrTo(0)
  /\ Len(config[1].Format) >= 2
  /\ \A i \in 1..Len(config[1].Format) :
       /\ config[1].Format[i] \in
            {<<"j", "s", "o", "n">>, <<"x", "m", "l">>, <<"c", "s", "v">>,
             <<"t", "s", "v">>, <<"s", "p", "d", "x">>,
             <<"c", "y", "c", "l", "o", "n", "e", "d", "x">>}
       /\ \A j \in 1..Len(config[1].Format) :
            i # j => config[1].Format[i] # config[1].Format[j]

\* C15: when a run that lists several distinct supported formats succeeds,
\* the formats were written to pairwise distinct files, each file holds the
\* whole export of its own format, and a format's file is the -o base (or
\* "sbom") followed by that format's extension.
C15_DistinctFiles ==
  SeveralFormatsExported =>
    /\ Len(exported) = Len(config[1].Format)
    /\ \A i \in 1..Len(exported) :
         /\ exported[i].format = config[1].Format[i]
         /\ exported[i].path =
              (IF config[1].Output = <<>> THEN <<"s", "b", "o", "m">>
               ELSE CutAtFinalDotOfLastElement(config[1].Output))
              \o ExpectedExtension(exported[i].format)
         /\ exported[i].path \in DOMAIN files
         /\ files[exported[i].path] = WholeFile(exported[i].format, result.sbom)
         /\ \A j \in 1..Len(exported) : i # j => exported[i].path # exported[j].path

\* C15 witness: a run with -f json,spdx,cyclonedx -o o succeeded and left
\* o.json, o.spdx.json and o.cyclonedx.json.
C15_Witness ==
  /\ SeveralFormatsExported
  /\ config[1].Output = <<"o">>
  /\ Len(config[1].Format) = 3
  /\ DOMAIN files = {<<"o">> \o ExtJSON, <<"o">> \o ExtSPDX, <<"o">> \o ExtCycloneDX}
  /\ Len(result.sbom[1].Modules.elems) > 0

\* ConvertToSPDX returned a document
SPDXDone == pc = "done" /\ ret.fn = "ConvertToSPDX" /\ ~ret.panic
Packages == ret.doc[1].Packages

Decimal(n) == <<"0", "1", "2", "3", "4", "5", "6", "7", "8", "9">>[n + 1]

\* C16: ConvertToSPDX yields one package per module, in module order;
\* package i (counted from 0) has the identifier SPDXRef-Package-<i>, so
\* identifiers are pairwise distinct, and carries the module's name and
\* source; the document has SPDXVersion SPDX-2.3, DataLicense CC0-1.0,
\* SPDXIdentifier SPDXRef-DOCUMENT and the single creator
\* "Tool: terraform-sbom".
C16_OnePackagePerModule ==
  SPDXDone =>
    /\ Len(Packages) = Len(InputModules)
    /\ \A i \in 1..Len(Packages) :
         /\ Packages[i].PackageSPDXIdentifier = <<"SPDXRef-Package-", Decimal(i - 1)>>
         /\ Packages[i].PackageName = InputModules[i].Name
         /\ Packages[i].PackageDownloadLocation = InputModules[i].Source
         /\ \A j \in 1..Len(Packages) :
              i # j => Packages[i].PackageSPDXIdentifier # Packages[j].PackageSPDXIdentifier
    /\ ret.doc[1].SPDXVersion = "SPDX-2.3"
    /\ ret.doc[1].DataLicense = "CC0-1.0"
    /\ ret.doc[1].SPDXIdentifier = "SPDXRef-DOCUMENT"
    /\ Len(ret.doc[1].CreationInfo.Creators) = 1
    /\ ret.doc[1].CreationInfo.Creators[1].Creator = "Tool: terraform-sbom"

\* C16 witness: two modules with the same name were converted to two
\* packages with different identifiers.
C16_Witness ==
  /\ SPDXDone
  /\ Len(InputModules) = 2
  /\ InputModules[1].Name = InputModules[2].Name
  /\ InputModules[1] # InputModules[2]
  /\ Packages[2].PackageSPDXIdentifier = <<"SPDXRef-Package-", "1">>

\* C17 as stated: a package's PackageVersion is NOASSERTION if and only if
\* the module's version is the empty string, and is the module's version
\* otherwise; PackageCopyrightText is NOASSERTION for every package.
C17_NoAssertionIffEmpty ==
  SPDXDone =>
    \A i \in 1..Len(Packages) :
      /\ Packages[i].PackageVersion = "NOASSERTION" <=> InputModules[i].Version = ""
      /\ InputModules[i].Version # "" =>
           Packages[i].PackageVersion = InputModules[i].Version
      /\ Packages[i].PackageCopyrightText = "NOASSERTION"

\* C17: a package's PackageVersion is NOASSERTION when the module's version
\* is the empty string and is the module's version otherwise (so it is
\* NOASSERTION exactly when the module's version is empty or is itself
\* that word); PackageCopyrightText is NOASSERTION for every package.
C17_PackageVersion ==
  SPDXDone =>
    \A i \in 1..Len(Packages) :
      /\ InputModules[i].Version = "" => Packages[i].PackageVersion = "NOASSERTION"
      /\ InputModules[i].Version # "" =>
           Packages[i].PackageVersion = InputModules[i].Version
      /\ Packages[i].PackageVersion = "NOASSERTION" <=>
           InputModules[i].Version \in {"", "NOASSERTION"}
      /\ Packages[i].PackageCopyrightText = "NOASSERTION"

\* C17 witness: a module without a version and a module with one were
\* converted; the first got NOASSERTION, the second kept its version.
C17_Witness ==
  /\ SPDXDone
  /\ Len(InputModules) = 2
  /\ InputModules[1].Version = ""
  /\ Packages[1].PackageVersion = "NOASSERTION"
  /\ InputModules[2].Version = "~> 5.0"
  /\ Packages[2].PackageVersion = "~> 5.0"

\* ConvertToCycloneDX returned a BOM
CycloneDXDone == pc = "done" /\ ret.fn = "ConvertToCycloneDX" /\ ~ret.panic
Components == ret.bom[1].Components

Min(S) == CHOOSE i \in S : \A j \in S : i <= j

\* the part of source before its first "/" (all of it when it has none)
BeforeFirstSlash(source) ==
  IF Positions(source, "/") = {} THEN source
  ELSE SubSeq(source, 1, Min(Positions(source, "/")) - 1)

\* C18: ConvertToCycloneDX yields one component per module, in module
\* order, of type library, with the module's name, the module's version
\* (empty when the module has none) and as Group the part of the module's
\* source before its first "/" (empty for an empty source); Components is
\* a non-nil list, empty for an SBOM without modules.
C18_OneComponentPerModule ==
  CycloneDXDone =>
    /\ Components # NilPtr
    /\ ~Components[1].isNil
    /\ Len(Components[1].elems) = Len(InputModules)
    /\ \A i \in 1..Len(InputModules) :
         LET component == Components[1].elems[i] IN
         /\ component.Type = "library"
         /\ component.Name = InputModules[i].Name
         /\ component.Version = InputModules[i].Version
         /\ component.Group = BeforeFirstSlash(InputModules[i].Source)
         /\ InputModules[i].Source = <<>> => component.Group = <<>>
         /\ InputModules[i].Source = <<"h", "/", "a", "/", "w">> =>
              component.Group = <<"h">>
         /\ InputModules[i].Source = <<".", "/", "a">> => component.Group = <<".">>
         /\ InputModules[i].Source = <<"g", ":", ":", "h", ":", "/", "/", "a">> =>
              component.Group = <<"g", ":", ":", "h", ":">>

\* C18 witness: a git:: source and a registry source were converted, in
\* that order, to components with the groups "g::h:" and "h".
C18_Witness ==
  /\ CycloneDXDone
  /\ Len(InputModules) = 2
  /\ InputModules[1].Source = <<"g", ":", ":", "h", ":", "/", "/", "a">>
  /\ Components[1].elems[1].Group = <<"g", ":", ":", "h", ":">>
  /\ InputModules[2].Source = <<"h", "/", "a", "/", "w">>
  /\ Components[1].elems[2].Group = <<"h">>

XMLDone == pc = "done" /\ ret.fn = "XML"

\* C19: XML writes the declaration header first and the SBOM second: when
\* the header write fails it returns "failed to write XML header" and
\* writes nothing more; when the header is written and a later write fails
\* it returns "failed to encode SBOM as XML"; on success the output is the
\* declaration, a newline, then the SBOM root element.
C19_HeaderFirst ==
  XMLDone =>
    /\ Len(ret.writes) >= 1
    /\ ret.writes[1].data = <<"<?xml version=\"1.0\" encoding=\"UTF-8\"?>", "\n">>
    /\ ~ret.writes[1].ok =>
         /\ ret.err[1] = "failed to write XML header"
         /\ Len(ret.writes) = 1
    /\ (ret.writes[1].ok /\ \E k \in 2..Len(ret.writes) : ~ret.writes[k].ok) =>
         ret.err[1] = "failed to encode SBOM as XML"
    /\ call.writer = "write fails" => ~ret.writes[1].ok
    /\ (call.writer = "later write fails" /\ call.s # NilPtr) =>
         /\ ret.writes[1].ok
         /\ Len(ret.writes) = 2
         /\ ~ret.writes[2].ok
    /\ (call.writer = "ok" /\ call.s # NilPtr) =>
         /\ ret.err = NoError
         /\ Len(Output(ret.writes)) = 3
         /\ Output(ret.writes)[1] = "<?xml version=\"1.0\" encoding=\"UTF-8\"?>"
         /\ Output(ret.writes)[2] = "\n"
         /\ Output(ret.writes)[3].tag = "SBOM"

\* C19 witness: the header was written, the write of the SBOM failed, and
\* XML returned the encoding error.
C19_Witness ==
  /\ XMLDone
  /\ call.s # NilPtr
  /\ Len(InputModules) > 0
  /\ Len(ret.writes) = 2
  /\ ret.writes[1].ok
  /\ ~ret.writes[2].ok
  /\ ret.err = <<"failed to encode SBOM as XML">>

Reparsed == pc = "reparsed" /\ ret.fn = "xml.Unmarshal" /\ ret.err = Nil
ReadBack == ret.sbom[1].Modules.elems

\* a location with the directory part of its file path removed
LocationByBaseName(location) ==
  LET slashes == Positions(SubSeq(location, 1, Max(Positions(location, ":"))), "/")
  IN IF slashes = {} THEN location
     ELSE <<location[1]>> \o SubSeq(location, Max(slashes) + 1, Len(location))

\* C20: after XML export and re-parsing every module keeps its position,
\* name, source and version, and its location names the declaring file by
\* base name only.
C20_XMLRoundTrip ==
  Reparsed =>
    /\ Len(ReadBack) = Len(InputModules)
    /\ \A i \in 1..Len(InputModules) :
         /\ ReadBack[i].Name = InputModules[i].Name
         /\ ReadBack[i].Source = InputModules[i].Source
         /\ ReadBack[i].Version = InputModules[i].Version
         /\ ReadBack[i].Location = LocationByBaseName(InputModules[i].Location)

\* main holds the SBOM Generate returned
HoldsSBOM == pc \in {"export", "exited"} /\ config # NilPtr /\ result.err = Nil

HasTfDone == pc = "done" /\ ret.fn = "HasTerraformFiles"

\* dir exists, is a directory (or a link to one) and can be read
CanBeListed(dir) ==
  dir \in DOMAIN fs /\ fs[dir].kind \in {"dir", "link"} /\ fs[dir].readable

\* C22: HasTerraformFiles(dir) is true if and only if dir can be listed and
\* has a direct entry that is not a directory and whose name ends in ".tf";
\* .tf files in sub-directories do not count, and an empty, missing or
\* unreadable directory gives false.
C22_HasTerraformFiles ==
  HasTfDone =>
    /\ ret.has <=> (CanBeListed(call.dir) /\ DirectTf(call.dir))
    /\ call.dir \notin DOMAIN fs => ~ret.has
    /\ (call.dir \in DOMAIN fs /\ ~fs[call.dir].readable) => ~ret.has
    /\ (\A q \in DOMAIN fs : ~(Len(q) = Len(call.dir) + 1 /\ IsBelow(q, call.dir))) =>
         ~ret.has

\* C22 witness: the directory holds a .tf file only inside a sub-directory
\* and the answer was false.
C22_Witness ==
  /\ HasTfDone
  /\ CanBeListed(call.dir)
  /\ ~DirectTf(call.dir)
  /\ \E q \in DOMAIN fs :
       Len(q) = Len(call.dir) + 2 /\ IsBelow(q, call.dir)
       /\ fs[q].kind = "file" /\ IsTfName(Last(q))
  /\ ~ret.has

IsSuccessLine(line) == line[1] = "SBOM successfully exported to"
SuccessLines == SelectSeq(stdout, IsSuccessLine)

\* C23: the loop exports the formats strictly in the order of the -f list,
\* each to the file name derived from -o; when Export fails the run writes
\* "Error exporting <format> format" with the error and exits with status 1
\* at once, no later format being tried; and the success line of a format
\* is printed only once its export has returned nil.
C23_ExportInOrder ==
  config # NilPtr =>
    /\ Len(exported) <= Len(config[1].Format)
    /\ pc = "export" => fmtIdx = Len(exported) + 1
    /\ \A i \in 1..Len(exported) :
         /\ exported[i].format = config[1].Format[i]
         /\ exported[i].path = GenerateOutputFilename(config[1].Output, config[1].Format[i])
         /\ exported[i].err # NoError =>
              /\ i = Len(exported)
              /\ pc = "exited"
              /\ exitCode = PtrTo(1)
              /\ stderr[Len(stderr)][1] = "Error exporting"
              /\ stderr[Len(stderr)][2] = exported[i].format
         /\ exported[i].err = NoError =>
              /\ i <= Len(SuccessLines)
              /\ SuccessLines[i][2] = exported[i].path
              /\ SuccessLines[i][3] = exported[i].format
    /\ \A i \in 1..Len(SuccessLines) :
         i <= Len(exported) /\ exported[i].err = NoError

\* C23 witness: of three requested formats the first was exported, the
\* second failed, and the run ended without trying the third.
C23_Witness ==
  /\ pc = "exited"
  /\ config # NilPtr
  /\ Len(config[1].Format) = 3
  /\ Len(exported) = 2
  /\ exported[1].err = NoError
  /\ exported[2].err # NoError
  /\ Len(SuccessLines) = 1
  /\ exitCode = PtrTo(1)

\* Generate returned an SBOM without modules
ZeroModules ==
  /\ config # NilPtr
  /\ pc \in {"export", "exited"}
  /\ result.err = Nil
  /\ result.sbom # NilPtr
  /\ Len(result.sbom[1].Modules.elems) = 0

WarningsNoModules ==
  {i \in 1..Len(stderr) : stderr[i][1] = "Warning: No module calls found in"}

\* C24: when Generate succeeds with zero modules the run writes
\* "Warning: No module calls found" to stderr (and no "Found" line), goes
\* on to export every requested format, and exits with a failure status
\* only if an export fails.
C24_EmptyStillExports ==
  ZeroModules =>
    /\ Cardinality(WarningsNoModules) = 1
    /\ \A i \in WarningsNoModules : stderr[i][2] = config[1].ConfigPath
    /\ \A i \in 1..Len(stdout) : stdout[i][1] # "Found"
    /\ pc = "exited" =>
         /\ exitCode = PtrTo(1) <=> ExportFailed
         /\ exitCode = PtrTo(0) <=> ~ExportFailed
         /\ ~ExportFailed =>
              /\ Len(exported) = Len(config[1].Format)
              /\ \A i \in 1..Len(exported) :
                   /\ exported[i].format = config[1].Format[i]
                   /\ exported[i].path \in DOMAIN files

\* C24 witness: a run over a configuration without module calls exported
\* two formats and ended with status 0.
C24_Witness ==
  /\ ZeroModules
  /\ pc = "exited"
  /\ exitCode = PtrTo(0)
  /\ Len(exported) = 2
  /\ Cardinality(WarningsNoModules) = 1

\* C25: a CSV or TSV export holds exactly one header row followed by one
\* data row per module, in the order of the SBOM's modules: n modules give
\* n + 1 rows, and row i + 1 carries the fields of module i.
C25_RowPerModule ==
  (ExportSucceeded /\ call.format \in {FmtCSV, FmtTSV}) =>
    /\ Len(Written) = Len(InputModules) + 1
    /\ Written[1][1] = "Name"
    /\ \A i \in 1..Len(InputModules) :
         /\ Written[i + 1][1] = InputModules[i].Name
         /\ Written[i + 1][3] = InputModules[i].Source
         /\ Written[i + 1][5] = InputModules[i].Version
         /\ Written[i + 1][7] = InputModules[i].Location

\* C25 witness: an SBOM of two different modules was exported as CSV, which
\* gave three rows.
C25_Witness ==
  /\ ExportSucceeded
  /\ call.format = FmtCSV
  /\ Len(InputModules) = 2
  /\ InputModules[1] # InputModules[2]
  /\ Len(Written) = 3

NoDuplicates(seq) == \A i, j \in 1..Len(seq) : seq[i] = seq[j] => i = j

\* the entries of the tree at or below the scan root
TreeEntries == {p \in DOMAIN fs : p = Root \/ IsBelow(p, Root)}

\* C26: the recursive scan is a bounded traversal of the tree: it ends
\* after visiting every entry at or below the root at most once, it visits
\* nothing below a symbolic link, and the list of module directories it
\* returns is drawn from the visited directories and holds none twice.
C26_BoundedTraversal ==
  (recursive /\ Scanned) =>
    /\ NoDuplicates(visited)
    /\ Range(visited) \subseteq TreeEntries
    /\ Len(visited) <= Cardinality(TreeEntries)
    /\ \A p \in Range(visited) : \A q \in DOMAIN fs :
         fs[q].kind = "link" => ~IsBelow(p, q)
    /\ NoDuplicates(moduleDirs)
    /\ Range(moduleDirs) \subseteq {p \in Range(visited) : RealDir(p)}
    /\ NoDuplicates(loaded)

\* C26 witness: a recursive scan of a tree with a link in it visited four
\* entries or more, the link among them, and returned two directories.
C26_Witness ==
  /\ recursive /\ Succeeded
  /\ Len(visited) >= 4
  /\ \E p \in Range(visited) : fs[p].kind = "link"
  /\ Len(moduleDirs) >= 2

\* C27: when the export of a format fails, the output file of every format
\* exported earlier in the run still holds that format's complete export;
\* in particular after "-f json,<unknown format>" the JSON export is still
\* in <base>.json.
C27_EarlierExportsKept ==
  \A i \in 1..Len(exported) :
    (ExportFailed /\ exported[i].err = NoError) =>
      /\ exported[i].path \in DOMAIN files
      /\ files[exported[i].path] = WholeFile(exported[i].format, exported[i].s)

UnsupportedReturned ==
  ExportDone /\ Len(ret.err) = 3 /\ ret.err[1] = "unsupported format:"

\* C28: an Export call that returns the "unsupported format" error leaves
\* the file system as it was: no file is created at outputPath and a file
\* already there is neither truncated nor changed.
C28_UnsupportedNoEffect ==
  UnsupportedReturned => files = call.files

\* the second of two Generate calls has returned, and both succeeded
BothSucceeded ==
  /\ firstCall # NilPtr
  /\ firstCall[1].result.err = Nil
  /\ Succeeded

FirstMods == firstCall[1].result.sbom[1].Modules.elems

\* C29: two calls of Generate with the same path and the same recursive
\* flag on an unchanged tree return the same sequence of module records in
\* the same order, the order of several declarations of one directory
\* included.
C29_SameSequence ==
  (BothSucceeded /\ firstCall[1].recursive = recursive) => Mods = FirstMods

\* C30: when Generate(path, false) and Generate(path, true) both succeed on
\* the same tree, every module record of the non-recursive result is also
\* in the recursive result.
C30_RecursiveAddsOnly ==
  (BothSucceeded /\ ~firstCall[1].recursive /\ recursive) =>
     Range(FirstMods) \subseteq Range(Mods)

====
